---- MODULE Spec2Model ----
(***************************************************************************)
(* Model of the query-translation and analysis-pipeline subsystem of       *)
(* generic_crud_system:                                                     *)
(*   - MongoQueryBuilder of analytics_engine_1 (dal/data_access_layer.py)  *)
(*   - MongoQueryBuilder of analytics-engine_2 (dal/query_builder.py)      *)
(*   - PipelineManager.run_pipeline of analytics_engine_1                  *)
(*   - analyze_data / PipelineManager of analytics-engine_2                *)
(*                                                                         *)
(* Python values are represented as follows.                               *)
(*   dict            a function whose domain is the set of keys           *)
(*   list            a sequence                                            *)
(*   Optional[x]     None is <<>>, a present value x is <<x>>              *)
(*   filter clause   the value bound to a field in a filter document is    *)
(*                   always a dict here: {"$gt": 1} is ("$gt" :> 1) and a  *)
(*                   plain value v (query[field] = v) is (Plain :> v)      *)
(***************************************************************************)
EXTENDS Integers, Sequences, FiniteSets, TLC

VARIABLES
    qb1,        \* the analytics_engine_1 MongoQueryBuilder under test
    qb2,        \* the analytics-engine_2 MongoQueryBuilder under test
    lastCall,   \* the builder call made last, with its outcome
    added,      \* the (engine, field, operator) triples add_filter accepted
    nCalls,     \* number of builder calls made so far
    store,      \* the documents of the collection, in natural order
    e1,         \* the analytics_engine_1 /api/analyze request in flight
    e2,         \* the analytics-engine_2 /analyze request in flight
    bx,         \* the calls made on a builder that is executed, and what they returned
    sv,         \* an analysis service invoked on its own, and what it returned
    s1,         \* a call of sal_1's GenericDataLoader, and what it returned
    dal         \* the AnalyticsDAL of analytics_engine_1 and the calls made on it

vars == <<qb1, qb2, lastCall, added, nCalls, store, e1, e2, bx, sv, s1, dal>>

qbVars == <<qb1, qb2, lastCall, added, nCalls>>

pipeVars == <<store, e1, e2>>

auxVars == <<bx, sv, s1, dal>>

restVars == <<s1, dal>>

(***************************************************************************)
(* Bounds                                                                  *)
(***************************************************************************)
MaxCalls == 3

MaxAnalyses == 2

(***************************************************************************)
(* Python helpers                                                          *)
(***************************************************************************)
EmptyDict == [k \in {} |-> 0]

None == <<>>

Some(x) == <<x>>

\* d[k] = v on a dict
Put(d, k, v) == [x \in (DOMAIN d) \cup {k} |-> IF x = k THEN v ELSE d[x]]

\* d.setdefault(k, {}) : the value bound to k afterwards
SetDefault(d, k) == IF k \in DOMAIN d THEN d[k] ELSE EmptyDict

\* the key that stands for a plain (operator-less) value of a field
Plain == "="

(***************************************************************************)
(* analytics_engine_1: MongoQueryBuilder                                   *)
(***************************************************************************)
op_map ==
    [ eq |-> "$eq", ne |-> "$ne", gt |-> "$gt", gte |-> "$gte", lt |-> "$lt",
      lte |-> "$lte", in |-> "$in", nin |-> "$nin", exists |-> "$exists",
      type |-> "$type", all |-> "$all", size |-> "$size" ]

E1_NewBuilder ==
    [ _filter |-> EmptyDict, _sort |-> None, _limit |-> None, _skip |-> None,
      _projection |-> None ]

\* an add_filter that ignores an operator it does not know
E1_add_filter_Mut(b, field, operator, value) ==
    IF operator = "regex"
    THEN LET c0 == SetDefault(b._filter, field)
             c1 == Put(c0, "$regex",
                       IF "pattern" \in DOMAIN value THEN value.pattern ELSE "")
             c2 == IF "options" \in DOMAIN value
                   THEN Put(c1, "$options", value.options)
                   ELSE c1
         IN  [raised |-> FALSE,
              builder |-> [b EXCEPT !._filter = Put(b._filter, field, c2)]]
    ELSE IF operator \in DOMAIN op_map
    THEN [raised |-> FALSE,
          builder |-> [b EXCEPT !._filter =
                          Put(b._filter, field,
                              Put(SetDefault(b._filter, field), op_map[operator], value))]]
    ELSE [raised |-> FALSE, builder |-> b]

\* add_filter: the builder afterwards, or raised when it raises ValueError
E1_add_filter(b, field, operator, value) ==
    IF operator = "regex"
    THEN LET c0 == SetDefault(b._filter, field)
             c1 == Put(c0, "$regex",
                       IF "pattern" \in DOMAIN value THEN value.pattern ELSE "")
             c2 == IF "options" \in DOMAIN value
                   THEN Put(c1, "$options", value.options)
                   ELSE c1
         IN  [raised |-> FALSE,
              builder |-> [b EXCEPT !._filter = Put(b._filter, field, c2)]]
    ELSE IF operator \in DOMAIN op_map
    THEN [raised |-> FALSE,
          builder |-> [b EXCEPT !._filter =
                          Put(b._filter, field,
                              Put(SetDefault(b._filter, field), op_map[operator], value))]]
    ELSE [raised |-> TRUE, builder |-> b]

E1_add_or_condition(b, conditions) ==
    IF "$or" \in DOMAIN b._filter
    THEN [b EXCEPT !._filter = Put(b._filter, "$or", b._filter["$or"] \o conditions)]
    ELSE [b EXCEPT !._filter = Put(b._filter, "$or", conditions)]

\* a set_sort that keeps the last key only
E1_set_sort_Mut(b, field, direction) ==
    [b EXCEPT !._sort = Some(<<(<<field, direction>>)>>)]

E1_set_sort(b, field, direction) ==
    LET cur == IF b._sort = None THEN <<>> ELSE b._sort[1]
    IN  [b EXCEPT !._sort = Some(Append(cur, <<field, direction>>))]

E1_set_limit(b, count) == [b EXCEPT !._limit = count]

E1_set_skip(b, count) == [b EXCEPT !._skip = count]

(***************************************************************************)
(* analytics-engine_2: MongoQueryBuilder                                   *)
(***************************************************************************)
ASCENDING == 1

DESCENDING == -1

E2_NewBuilder ==
    [ query |-> EmptyDict, sort_params |-> None, limit_count |-> None,
      skip_count |-> 0 ]

\* the operators add_filter has a branch for, with the key of the clause
E2_OperatorKey ==
    [ ne |-> "$ne", gt |-> "$gt", gte |-> "$gte", lt |-> "$lt", lte |-> "$lte",
      in |-> "$in", nin |-> "$nin", exists |-> "$exists", type |-> "$type",
      all |-> "$all", size |-> "$size" ]

\* an add_filter whose last branch files the unknown operator as "$<operator>"
E2_add_filter_Mut(b, field, operator, value, options) ==
    IF operator = "eq"
    THEN [b EXCEPT !.query = Put(b.query, field, (Plain :> value))]
    ELSE IF operator \in DOMAIN E2_OperatorKey
    THEN [b EXCEPT !.query = Put(b.query, field, (E2_OperatorKey[operator] :> value))]
    ELSE IF operator = "regex"
    THEN LET ci == /\ options # None
                   /\ "case_insensitive" \in DOMAIN options[1]
                   /\ options[1].case_insensitive
         IN  [b EXCEPT !.query =
                 Put(b.query, field,
                     ("$regex" :> value @@ "$options" :> (IF ci THEN "i" ELSE "")))]
    ELSE [b EXCEPT !.query = Put(b.query, field, (("$" \o operator) :> value))]

\* add_filter never raises: an unknown operator is logged and the builder
\* is returned as it is
E2_add_filter(b, field, operator, value, options) ==
    IF operator = "eq"
    THEN [b EXCEPT !.query = Put(b.query, field, (Plain :> value))]
    ELSE IF operator \in DOMAIN E2_OperatorKey
    THEN [b EXCEPT !.query = Put(b.query, field, (E2_OperatorKey[operator] :> value))]
    ELSE IF operator = "regex"
    THEN LET ci == /\ options # None
                   /\ "case_insensitive" \in DOMAIN options[1]
                   /\ options[1].case_insensitive
         IN  [b EXCEPT !.query =
                 Put(b.query, field,
                     ("$regex" :> value @@ "$options" :> (IF ci THEN "i" ELSE "")))]
    ELSE b

E2_add_elem_match(b, field, criteria) ==
    [b EXCEPT !.query = Put(b.query, field, ("$elemMatch" :> criteria))]

\* an add_or_condition that replaces the clauses of the earlier calls
E2_add_or_condition_Mut(b, conditions) ==
    [b EXCEPT !.query = Put(b.query, "$or", conditions)]

E2_add_or_condition(b, conditions) ==
    LET cur == IF "$or" \in DOMAIN b.query THEN b.query["$or"] ELSE <<>>
    IN  [b EXCEPT !.query = Put(b.query, "$or", cur \o conditions)]

E2_set_sort(b, field, direction) ==
    LET sort_direction == IF direction = "asc" THEN ASCENDING ELSE DESCENDING
        cur == IF b.sort_params = None \/ b.sort_params = Some(<<>>)
               THEN <<>> ELSE b.sort_params[1]
    IN  [b EXCEPT !.sort_params = Some(Append(cur, <<field, sort_direction>>))]

E2_set_limit(b, count) == [b EXCEPT !.limit_count = Some(count)]

E2_set_skip(b, count) == [b EXCEPT !.skip_count = count]

(***************************************************************************)
(* The document store behind a builder: collection.find / sort / skip /    *)
(* limit over a sequence of documents in natural order.  Documents are     *)
(* dicts of scalar fields; "_id" holds a native identifier [oid |-> n].    *)
(***************************************************************************)
\* one operator key of a clause, against a document's field
\* (only the comparison keys are modelled; fields are scalars)
KeyHolds(doc, field, key, v) ==
    LET has == field \in DOMAIN doc
    IN  CASE key = Plain     -> has /\ doc[field] = v
          [] key = "$eq"     -> has /\ doc[field] = v
          [] key = "$ne"     -> ~has \/ doc[field] # v
          [] key = "$gt"     -> has /\ doc[field] > v
          [] key = "$gte"    -> has /\ doc[field] >= v
          [] key = "$lt"     -> has /\ doc[field] < v
          [] key = "$lte"    -> has /\ doc[field] <= v
          [] key = "$in"     -> has /\ \E i \in DOMAIN v : doc[field] = v[i]
          [] key = "$nin"    -> ~has \/ \A i \in DOMAIN v : doc[field] # v[i]
          [] key = "$exists" -> has <=> v

\* the AND of the field clauses of a filter document (without "$or")
FieldsMatch(doc, filter) ==
    \A field \in (DOMAIN filter) \ {"$or"} :
        \A key \in DOMAIN filter[field] :
            KeyHolds(doc, field, key, filter[field][key])

Matches(doc, filter) ==
    /\ FieldsMatch(doc, filter)
    /\ "$or" \in DOMAIN filter =>
          \E i \in DOMAIN filter["$or"] : FieldsMatch(doc, filter["$or"][i])

RECURSIVE Find(_, _)
Find(docs, filter) ==
    IF docs = <<>> THEN <<>>
    ELSE (IF Matches(Head(docs), filter) THEN <<Head(docs)>> ELSE <<>>)
         \o Find(Tail(docs), filter)

\* d1 sorts strictly before d2 under the sort list (a missing field sorts
\* before every value, as null does)
RECURSIVE Before(_, _, _)
Before(d1, d2, sort) ==
    IF sort = <<>> THEN FALSE
    ELSE LET f   == Head(sort)[1]
             dir == Head(sort)[2]
             h1  == f \in DOMAIN d1
             h2  == f \in DOMAIN d2
             lt  == (~h1 /\ h2) \/ (h1 /\ h2 /\ d1[f] < d2[f])
             gt  == (h1 /\ ~h2) \/ (h1 /\ h2 /\ d1[f] > d2[f])
         IN  IF lt THEN dir = 1
             ELSE IF gt THEN dir = -1
             ELSE Before(d1, d2, Tail(sort))

RECURSIVE InsertSorted(_, _, _)
InsertSorted(d, sorted, sort) ==
    IF sorted = <<>> THEN <<d>>
    ELSE IF Before(d, Head(sorted), sort) THEN <<d>> \o sorted
    ELSE <<Head(sorted)>> \o InsertSorted(d, Tail(sorted), sort)

\* cursor.sort: documents that tie keep their natural order
RECURSIVE SortDocs(_, _)
SortDocs(docs, sort) ==
    IF docs = <<>> THEN <<>>
    ELSE InsertSorted(docs[Len(docs)], SortDocs(SubSeq(docs, 1, Len(docs) - 1), sort), sort)

Skip(docs, n) == SubSeq(docs, n + 1, Len(docs))

Limit(docs, n) == SubSeq(docs, 1, IF n < Len(docs) THEN n ELSE Len(docs))

\* str(ObjectId): a string, written [str |-> s] so that it can be told from
\* the native identifier [oid |-> n] it was made of
Str(id) == [str |-> ToString(id.oid)]

StringifyId(doc) == IF "_id" \in DOMAIN doc THEN [doc EXCEPT !["_id"] = Str(doc["_id"])] ELSE doc

\* an execute() that limits before it skips
E2_execute_Mut(b, docs) ==
    LET c0 == Find(docs, b.query)
        c1 == IF b.sort_params # None /\ b.sort_params # Some(<<>>)
              THEN SortDocs(c0, b.sort_params[1]) ELSE c0
        c2 == IF b.limit_count # None /\ b.limit_count[1] # 0
              THEN Limit(c1, b.limit_count[1]) ELSE c1
        c3 == IF b.skip_count > 0 THEN Skip(c2, b.skip_count) ELSE c2
    IN  [i \in DOMAIN c3 |-> StringifyId(c3[i])]

\* analytics-engine_2 execute(): the rows returned on a healthy store
E2_execute(b, docs) ==
    LET c0 == Find(docs, b.query)
        c1 == IF b.sort_params # None /\ b.sort_params # Some(<<>>)
              THEN SortDocs(c0, b.sort_params[1]) ELSE c0
        c2 == IF b.skip_count > 0 THEN Skip(c1, b.skip_count) ELSE c1
        c3 == IF b.limit_count # None /\ b.limit_count[1] # 0
              THEN Limit(c2, b.limit_count[1]) ELSE c2
    IN  [i \in DOMAIN c3 |-> StringifyId(c3[i])]

\* analytics_engine_1 execute(): the rows returned on a healthy store
E1_execute(b, docs) ==
    LET c0 == Find(docs, b._filter)
        c1 == IF b._sort # None /\ b._sort # Some(<<>>)
              THEN SortDocs(c0, b._sort[1]) ELSE c0
        c2 == IF b._skip # None /\ b._skip[1] # 0 THEN Skip(c1, b._skip[1]) ELSE c1
        c3 == IF b._limit # None /\ b._limit[1] # 0 THEN Limit(c2, b._limit[1]) ELSE c2
    IN  c3

\* execute() as a call on the builder: what it returns and the builder it
\* leaves behind.  analytics_engine_1 ends with cursor.to_list(length=_limit):
\* with _limit = 0 no cursor limit is set and to_list is asked for 0
\* documents, which the driver either rejects (ValueError) or answers with
\* no document, depending on its version.
E1_execute_call(b, docs) ==
    IF b._limit = Some(0)
    THEN {[raised |-> r, rows |-> <<>>, builder |-> b] : r \in BOOLEAN}
    ELSE {[raised |-> FALSE, rows |-> E1_execute(b, docs), builder |-> b]}

\* an execute() that consumes the skip it applied
E2_execute_call_Mut(b, docs) ==
    {[raised |-> FALSE, rows |-> E2_execute(b, docs),
      builder |-> [b EXCEPT !.skip_count = 0]]}

E2_execute_call(b, docs) ==
    {[raised |-> FALSE, rows |-> E2_execute(b, docs), builder |-> b]}

(***************************************************************************)
(* collection.aggregate: the stages of a pipeline run in order, each on    *)
(* the output of the one before.  A stage is [op, arg]:                    *)
(*   "$match" a filter document      "$sort"  a sort list                  *)
(*   "$skip"  a count                "$limit" a count                      *)
(*   "$group" [by |-> field, sum |-> field]: one document per value of by, *)
(*            holding _id, count ($sum: 1) and total ($sum: "$<sum>")      *)
(***************************************************************************)
RECURSIVE SumOf(_, _)
SumOf(docs, field) ==
    IF docs = <<>> THEN 0
    ELSE (IF field \in DOMAIN Head(docs) THEN Head(docs)[field] ELSE 0)
         + SumOf(Tail(docs), field)

\* the values of a field in the order they first appear
RECURSIVE KeysInOrder(_, _, _)
KeysInOrder(docs, field, seen) ==
    IF docs = <<>> THEN <<>>
    ELSE IF field \notin DOMAIN Head(docs) \/ Head(docs)[field] \in seen
    THEN KeysInOrder(Tail(docs), field, seen)
    ELSE <<Head(docs)[field]>>
         \o KeysInOrder(Tail(docs), field, seen \cup {Head(docs)[field]})

\* the documents that lack the key form one more group, of _id null
Group(docs, by, sum) ==
    LET keys == KeysInOrder(docs, by, {})
        of(k) == Find(docs, (by :> (Plain :> k)))
        rest == Find(docs, (by :> ("$exists" :> FALSE)))
    IN  [i \in DOMAIN keys |->
            [_id |-> Some(keys[i]), count |-> Len(of(keys[i])),
             total |-> SumOf(of(keys[i]), sum)]]
        \o (IF rest = <<>> THEN <<>>
            ELSE <<[_id |-> None, count |-> Len(rest), total |-> SumOf(rest, sum)]>>)

Stage(stage, docs) ==
    CASE stage.op = "$match" -> Find(docs, stage.arg)
      [] stage.op = "$sort"  -> SortDocs(docs, stage.arg)
      [] stage.op = "$skip"  -> Skip(docs, stage.arg)
      [] stage.op = "$limit" -> Limit(docs, stage.arg)
      [] stage.op = "$group" -> Group(docs, stage.arg.by, stage.arg.sum)

RECURSIVE Aggregate(_, _)
Aggregate(pipeline, docs) ==
    IF pipeline = <<>> THEN docs
    ELSE Aggregate(Tail(pipeline), Stage(Head(pipeline), docs))

\* the stages of a pipeline that come before its first $group: they select
\* the documents the pipeline aggregates over
RECURSIVE BeforeGroup(_)
BeforeGroup(pipeline) ==
    IF pipeline = <<>> \/ Head(pipeline).op = "$group" THEN <<>>
    ELSE <<Head(pipeline)>> \o BeforeGroup(Tail(pipeline))

HasGroup(pipeline) == \E i \in DOMAIN pipeline : pipeline[i].op = "$group"

\* analytics_engine_1 execute_aggregation_pipeline
E1_execute_aggregation_pipeline(b, pipeline_stages, docs) ==
    [rows |-> Aggregate(pipeline_stages, docs), builder |-> b]

\* str(doc["_id"]) of an aggregation result: the _id of a grouped document
\* is the (numeric) group key or null, any other _id is the native identifier
E2_StrResultId(pipeline, doc) ==
    IF "_id" \notin DOMAIN doc THEN doc
    ELSE IF HasGroup(pipeline)
    THEN [doc EXCEPT !["_id"] = [str |-> IF doc["_id"] = None THEN "None"
                                         ELSE ToString(doc["_id"][1])]]
    ELSE StringifyId(doc)

\* an execute_aggregation_pipeline that seeds the pipeline with the filter
\* accumulated in the builder
E2_execute_aggregation_pipeline_Mut(b, pipeline, docs) ==
    LET results == Aggregate(<<[op |-> "$match", arg |-> b.query]>> \o pipeline, docs)
    IN  [rows |-> [i \in DOMAIN results |-> E2_StrResultId(pipeline, results[i])],
         builder |-> b]

\* analytics-engine_2 execute_aggregation_pipeline
E2_execute_aggregation_pipeline(b, pipeline, docs) ==
    LET results == Aggregate(pipeline, docs)
    IN  [rows |-> [i \in DOMAIN results |-> E2_StrResultId(pipeline, results[i])],
         builder |-> b]

(***************************************************************************)
(* Rows as a DataFrame, and what an analysis hands back.  A payload is     *)
(* [kind, msg]: kind "ok" is a computed result, "nodata" the no-data       *)
(* marker, "error" an {"error": ...} payload.                              *)
(***************************************************************************)
\* pd.DataFrame(rows).columns
Columns(rows) == UNION {DOMAIN rows[i] : i \in DOMAIN rows}

Ok(msg) == [kind |-> "ok", msg |-> msg]

NoData(msg) == [kind |-> "nodata", msg |-> msg]

ErrorPayload(msg) == [kind |-> "error", msg |-> msg]

\* an exception leaving the computation (not a payload)
Raise(msg) == [kind |-> "raise", msg |-> msg]

\* pd.to_datetime accepts the timestamp (a negative number stands for a
\* value that is no date)
Parseable(ts) == ts >= 0

(***************************************************************************)
(* analytics_engine_1: analysis services and registry.  A params value is  *)
(* tagged with its Python type: [t |-> "list", v |-> <<...>>].             *)
(***************************************************************************)
E1_AVAILABLE_SERVICES == {"sales_by_region", "user_activity_summary", "group_and_aggregate"}

\* FETCH_DATA_FIRST of the service classes
E1_FETCH_DATA_FIRST(service) == service # "user_activity_summary"

\* SalesByRegionService.process
E1_SalesByRegion_process(data) ==
    IF data = None \/ data[1] = <<>> THEN NoData("No data provided for analysis.")
    ELSE IF "sales_amount" \notin Columns(data[1]) THEN Raise("KeyError")
    ELSE IF "units_sold" \notin Columns(data[1]) THEN Raise("KeyError")
    ELSE IF "region" \notin Columns(data[1]) THEN ErrorPayload("Field 'region' not found in data.")
    ELSE Ok("sales_by_region")

\* params.get(key) is missing or empty
Falsy(params, key) == key \notin DOMAIN params \/ DOMAIN params[key].v = {}

SeqRange(q) == {q[k] : k \in DOMAIN q}

\* GroupingService.process
E1_Grouping_process(data, params) ==
    IF Falsy(params, "group_by_columns") \/ Falsy(params, "aggregations")
    THEN Raise("ValueError")
    ELSE IF params.group_by_columns.t # "list" \/ params.aggregations.t # "dict"
    THEN Raise("ValueError")
    ELSE IF data = None \/ data[1] = <<>> THEN NoData("No data for analysis.")
    ELSE IF ~(SeqRange(params.group_by_columns.v) \subseteq Columns(data[1]))
    THEN Raise("ValueError")
    ELSE IF ~(DOMAIN params.aggregations.v \subseteq Columns(data[1]))
    THEN Raise("ValueError")
    ELSE Ok("group_and_aggregate")

\* the pipeline UserActivitySummaryService.process (analytics_engine_1) builds
E1_UserActivity_pipeline(base_filter) ==
    (IF base_filter # EmptyDict THEN <<[op |-> "$match", arg |-> base_filter]>> ELSE <<>>)
    \o << [op |-> "$group", arg |-> [by |-> "user_id", sum |-> "user_id"]],
          [op |-> "$sort", arg |-> <<(<<"count", -1>>)>>] >>

\* UserActivitySummaryService.process: the pipeline is $match base_filter
\* (when the filter is not empty), $group by user_id, $sort; aggregated is
\* the outcome of execute_aggregation_pipeline, None when the store raised
E1_UserActivity_process(query_builder, aggregated) ==
    IF query_builder = None THEN Raise("RuntimeError")
    ELSE IF aggregated = None THEN Raise("PyMongoError")
    ELSE Ok("user_activity_summary")

E1_process(service, data, params, query_builder, aggregated) ==
    IF service = "sales_by_region" THEN E1_SalesByRegion_process(data)
    ELSE IF service = "group_and_aggregate" THEN E1_Grouping_process(data, params)
    ELSE E1_UserActivity_process(query_builder, aggregated)

\* a run_pipeline that skips an unknown name instead of raising
E1_resolve_step_Mut(st, analysis_request) ==
    IF analysis_request.name \notin E1_AVAILABLE_SERVICES
    THEN st
    ELSE [st EXCEPT !.services_to_run =
             Append(st.services_to_run,
                    [name |-> analysis_request.name, params |-> analysis_request.params,
                     service |-> analysis_request.name])]

\* one iteration of the first loop of run_pipeline: the service is looked
\* up and instantiated, an unknown name raises ValueError
E1_resolve_step(st, analysis_request) ==
    IF analysis_request.name \notin E1_AVAILABLE_SERVICES
    THEN [st EXCEPT !.raised = Some([type |-> "ValueError", in |-> "resolve",
                                     name |-> analysis_request.name])]
    ELSE [st EXCEPT !.services_to_run =
             Append(st.services_to_run,
                    [name |-> analysis_request.name, params |-> analysis_request.params,
                     service |-> analysis_request.name])]

\* all() where the code has any()
E1_needs_raw_data_Mut(services_to_run) ==
    \A k \in DOMAIN services_to_run : E1_FETCH_DATA_FIRST(services_to_run[k].service)

\* needs_raw_data = any(s.FETCH_DATA_FIRST for ... in services_to_run)
E1_needs_raw_data(services_to_run) ==
    \E k \in DOMAIN services_to_run : E1_FETCH_DATA_FIRST(services_to_run[k].service)

\* the loop of _build_base_query over criteria.filters: the builder, or
\* raised when add_filter raises
RECURSIVE E1_apply_filters(_, _)
E1_apply_filters(b, filters) ==
    IF filters = <<>> THEN [raised |-> FALSE, builder |-> b]
    ELSE LET f == Head(filters)
             r == E1_add_filter(b, f.field, f.operator, f.value)
         IN  IF r.raised THEN r ELSE E1_apply_filters(r.builder, Tail(filters))

\* An object of the request that add_or_condition receives, tagged with its
\* Python type.  SearchCriteria.or_conditions is List[Dict[str, Any]]: every
\* group of a validated request is a dict.
DictGroup(d) == [t |-> "dict", v |-> d]

\* the keys of a dict, as extend() iterates them
RECURSIVE KeyList(_)
KeyList(d) ==
    IF DOMAIN d = {} THEN <<>>
    ELSE LET k == CHOOSE x \in DOMAIN d : TRUE
         IN  <<k>> \o KeyList([x \in DOMAIN d \ {k} |-> d[x]])

\* the elements extend() appends when handed the object o
Items(o) == IF o.t = "list" THEN o.v ELSE KeyList(o.v)

\* an add_or_condition that merges the new group into the object it holds
\* (update in place of extend)
E1_add_or_condition_of_Mut(b, groups, k) ==
    IF "$or" \in DOMAIN b._filter
    THEN LET j == b._filter["$or"].request_group
         IN  [raised |-> FALSE, builder |-> b,
              groups |-> [groups EXCEPT ![j].v =
                             [x \in DOMAIN groups[j].v \cup DOMAIN groups[k].v |->
                                 IF x \in DOMAIN groups[k].v THEN groups[k].v[x]
                                 ELSE groups[j].v[x]]]]
    ELSE [raised |-> FALSE,
          builder |-> [b EXCEPT !._filter = Put(b._filter, "$or", [request_group |-> k])],
          groups |-> groups]

\* add_or_condition as _build_base_query calls it, with the k-th group
\* object of the request.  The first call binds "$or" to that very object
\* ([request_group |-> k] is the reference); a later call calls extend() on
\* the object held, which changes it in place when it is a list and raises
\* AttributeError when it is a dict.
E1_add_or_condition_of(b, groups, k) ==
    IF "$or" \in DOMAIN b._filter
    THEN LET j == b._filter["$or"].request_group
         IN  IF groups[j].t = "list"
             THEN [raised |-> FALSE, builder |-> b,
                   groups |-> [groups EXCEPT ![j].v = @ \o Items(groups[k])]]
             ELSE [raised |-> TRUE, builder |-> b, groups |-> groups]
    ELSE [raised |-> FALSE,
          builder |-> [b EXCEPT !._filter = Put(b._filter, "$or", [request_group |-> k])],
          groups |-> groups]

\* the loop of _build_base_query over criteria.or_conditions, from the
\* k-th group on: the builder and the group objects as the calls leave them
RECURSIVE E1_apply_or_conditions(_, _, _)
E1_apply_or_conditions(b, groups, k) ==
    IF k > Len(groups) THEN [raised |-> FALSE, builder |-> b, groups |-> groups]
    ELSE LET r == E1_add_or_condition_of(b, groups, k)
         IN  IF r.raised THEN r ELSE E1_apply_or_conditions(r.builder, r.groups, k + 1)

RECURSIVE E1_apply_sort(_, _)
E1_apply_sort(b, sort) ==
    IF sort = <<>> THEN b
    ELSE E1_apply_sort(E1_set_sort(b, Head(sort).field, Head(sort).direction), Tail(sort))

\* _build_base_query: the builder, or the exception raised, and the
\* or_conditions of the request as the calls leave them
E1_build_base_query(criteria) ==
    LET r1 == IF criteria.filters # None /\ criteria.filters[1] # <<>>
              THEN E1_apply_filters(E1_NewBuilder, criteria.filters[1])
              ELSE [raised |-> FALSE, builder |-> E1_NewBuilder]
        r2 == IF criteria.or_conditions # None /\ criteria.or_conditions[1] # <<>>
              THEN E1_apply_or_conditions(r1.builder, criteria.or_conditions[1], 1)
              ELSE [raised |-> FALSE, builder |-> r1.builder, groups |-> <<>>]
        after == IF criteria.or_conditions # None THEN Some(r2.groups)
                 ELSE criteria.or_conditions
        b3 == IF criteria.sort # None /\ criteria.sort[1] # <<>>
              THEN E1_apply_sort(r2.builder, criteria.sort[1])
              ELSE r2.builder
    IN  IF r1.raised
        THEN [raised |-> TRUE, type |-> "ValueError", builder |-> r1.builder,
              or_conditions |-> criteria.or_conditions]
        ELSE IF r2.raised
        THEN [raised |-> TRUE, type |-> "AttributeError", builder |-> r2.builder,
              or_conditions |-> after]
        ELSE [raised |-> FALSE, type |-> "",
              builder |-> E1_set_limit(E1_set_skip(b3, criteria.skip), criteria.limit),
              or_conditions |-> after]

\* the server rejects a filter whose "$or" is not an array; the "$or" a
\* request's or_conditions leave in the builder is a dict
E1_StoreRejects(b) == "$or" \in DOMAIN b._filter

\* one iteration of the second loop of run_pipeline; an exception of
\* process() leaves run_pipeline
E1_run_step(st, s, aggregated) ==
    LET data == IF E1_FETCH_DATA_FIRST(s.service) THEN st.raw_data ELSE None
        qb   == IF E1_FETCH_DATA_FIRST(s.service) THEN None ELSE st.query_builder
        r    == E1_process(s.service, data, s.params, qb, aggregated)
        st1  == [st EXCEPT !.given = Append(st.given, [name |-> s.name, data |-> data]),
                           !.aggregates = st.aggregates +
                                          (IF E1_FETCH_DATA_FIRST(s.service) THEN 0 ELSE 1)]
    IN  IF r.kind = "raise"
        THEN [st1 EXCEPT !.raised = Some([type |-> r.msg, in |-> "run", name |-> s.name])]
        ELSE [st1 EXCEPT !.results = Put(st.results, s.name, r)]

\* analyze_data: the HTTP status an exception of run_pipeline becomes
E1_status_of(exception_type) ==
    IF exception_type \in {"ValueError", "RuntimeError"} THEN 400 ELSE 500

(***************************************************************************)
(* analytics-engine_2: analysis services and registry                      *)
(***************************************************************************)
E2_AVAILABLE_SERVICES == {"sales_by_region", "user_activity_summary"}

\* get_service: a new instance of the registered class (made = 1 counts the
\* constructor call), or None
E2_get_service(service_name) ==
    IF service_name \in E2_AVAILABLE_SERVICES
    THEN [service |-> Some(service_name), made |-> 1]
    ELSE [service |-> None, made |-> 0]

\* a computed result that carries its value
OkValue(msg, value) == [kind |-> "ok", msg |-> msg, value |-> value]

\* round(num / den, 2) in hundredths, halves to the even neighbour
Round2(num, den) ==
    LET q == (num * 100) \div den
        r == (num * 100) % den
    IN  IF 2 * r > den \/ (2 * r = den /\ q % 2 = 1) THEN q + 1 ELSE q

\* the region names of the collections, in the order groupby sorts them
RegionsSorted == <<"east", "north", "south">>

HasField(docs, field) == SelectSeq(docs, LAMBDA d : field \in DOMAIN d)

WithValue(docs, field, value) ==
    SelectSeq(docs, LAMBDA d : field \in DOMAIN d /\ d[field] = value)

FieldValues(docs, field) == {docs[i][field] : i \in {j \in DOMAIN docs : field \in DOMAIN docs[j]}}

\* min / max / mean of a column or of an accumulator: None stands for the
\* NaN (pandas) or null (MongoDB) of an empty one
MinOf(S) == IF S = {} THEN None ELSE Some(CHOOSE x \in S : \A y \in S : x <= y)

MaxOf(S) == IF S = {} THEN None ELSE Some(CHOOSE x \in S : \A y \in S : x >= y)

MeanOf(docs, field) ==
    IF HasField(docs, field) = <<>> THEN None
    ELSE Some(Round2(SumOf(docs, field), Len(HasField(docs, field))))

\* SalesByRegionService.analyze_with_pandas past the column check: groupby
\* drops the rows without a region and orders the groups by region; the
\* groups are then sorted by their sum, largest first.  Sums are in units,
\* means and percentages in hundredths.
E2_Sales_pandas(rows) ==
    LET regions == SelectSeq(RegionsSorted, LAMBDA r : WithValue(rows, "region", r) # <<>>)
        total_sales == SumOf(rows, "sales_amount")
        group(r) ==
            LET of == HasField(WithValue(rows, "region", r), "sales_amount")
            IN  [ region |-> r,
                  sales_amount_sum |-> SumOf(of, "sales_amount"),
                  sales_amount_mean |-> MeanOf(of, "sales_amount"),
                  sales_amount_count |-> Len(of),
                  sales_amount_min |-> MinOf(FieldValues(of, "sales_amount")),
                  sales_amount_max |-> MaxOf(FieldValues(of, "sales_amount")),
                  percentage_of_total |->
                      Round2(SumOf(of, "sales_amount") * 100, total_sales) ]
        analysis == SortDocs([i \in DOMAIN regions |-> group(regions[i])],
                             <<(<<"sales_amount_sum", -1>>)>>)
    IN  [ summary |-> [ total_sales |-> total_sales,
                        total_regions |-> Len(analysis),
                        average_per_region |->
                            IF Len(analysis) > 0 THEN Round2(total_sales, Len(analysis))
                            ELSE 0 ],
          by_region |-> analysis,
          top_region |-> IF analysis # <<>> THEN Some(analysis[1]) ELSE None,
          bottom_region |-> IF analysis # <<>> THEN Some(analysis[Len(analysis)]) ELSE None ]

\* the group key "$region" of a document (a missing region groups under null)
RegionKey(doc) == IF "region" \in DOMAIN doc THEN doc.region ELSE "null"

RECURSIVE RegionKeys(_, _)
RegionKeys(docs, seen) ==
    IF docs = <<>> THEN <<>>
    ELSE IF RegionKey(Head(docs)) \in seen THEN RegionKeys(Tail(docs), seen)
    ELSE <<RegionKey(Head(docs))>> \o RegionKeys(Tail(docs), seen \cup {RegionKey(Head(docs))})

\* SalesByRegionService.build_aggregation_pipeline run by collection.aggregate:
\* $match base_query (when it is not empty), $group by region, $group all
\* with the grand total, $unwind, $project, $sort by total_sales descending.
\* None when the server rejects the pipeline ($divide by a grand total of 0).
E2_Sales_pipeline(base_query, docs) ==
    LET matched == IF base_query # EmptyDict THEN Find(docs, base_query) ELSE docs
        keys == RegionKeys(matched, {})
        grand_total == SumOf(matched, "sales_amount")
        group(r) ==
            LET all == SelectSeq(matched, LAMBDA d : RegionKey(d) = r)
                of  == HasField(all, "sales_amount")
            IN  [ region |-> r,
                  total_sales |-> SumOf(of, "sales_amount"),
                  average_sales |-> MeanOf(of, "sales_amount"),
                  count |-> Len(all),
                  min_sale |-> MinOf(FieldValues(of, "sales_amount")),
                  max_sale |-> MaxOf(FieldValues(of, "sales_amount")),
                  percentage_of_total |->
                      IF grand_total = 0 THEN 0
                      ELSE Round2(SumOf(of, "sales_amount") * 100, grand_total) ]
    IN  IF matched # <<>> /\ grand_total = 0 THEN None
        ELSE Some(SortDocs([i \in DOMAIN keys |-> group(keys[i])],
                           <<(<<"total_sales", -1>>)>>))

\* SalesByRegionService.post_process_aggregation on a non-empty frame
E2_Sales_post_process(df) ==
    LET total_sales == SumOf(df, "total_sales")
    IN  [ summary |-> [ total_sales |-> total_sales,
                        total_regions |-> Len(df),
                        average_per_region |->
                            IF Len(df) > 0 THEN Round2(total_sales, Len(df)) ELSE 0 ],
          by_region |-> df,
          top_region |-> IF df # <<>> THEN Some(df[1]) ELSE None,
          bottom_region |-> IF df # <<>> THEN Some(df[Len(df)]) ELSE None ]

\* UserActivitySummaryService.analyze_with_pandas past the to_datetime
\* conversion: the keys of the result and its summary (the other sections
\* are not computed here)
E2_Activity_pandas(rows) ==
    LET total_users == Cardinality(FieldValues(rows, "user_id"))
    IN  [ keys |-> {"summary", "actions_by_type", "top_10_users", "hourly_distribution",
                    "peak_hours", "weekly_distribution", "daily_statistics", "trends"},
          summary |-> [ total_users |-> total_users,
                        total_actions |-> Len(rows),
                        average_actions_per_user |->
                            IF total_users > 0 THEN Round2(Len(rows), total_users) ELSE 0,
                        unique_action_types |->
                            Cardinality(FieldValues(rows, "action_type")),
                        date_range |-> [ start |-> MinOf(FieldValues(rows, "timestamp")),
                                         end |-> MaxOf(FieldValues(rows, "timestamp")) ] ] ]

\* UserActivitySummaryService.build_aggregation_pipeline run by
\* collection.aggregate: $facet always yields one document; its summary
\* facet ($group with _id None, $project) is empty when nothing matched
E2_Activity_pipeline(base_query, docs) ==
    LET matched == IF base_query # EmptyDict THEN Find(docs, base_query) ELSE docs
    IN  Some(<< [ summary |->
               IF matched = <<>> THEN <<>>
               ELSE << [ total_actions |-> Len(matched),
                         total_users |-> Cardinality(FieldValues(matched, "user_id")),
                         total_action_types |->
                             Cardinality(FieldValues(matched, "action_type")),
                         date_range |->
                             [ start |-> MinOf(FieldValues(matched, "timestamp")),
                               end |-> MaxOf(FieldValues(matched, "timestamp")) ] ] >> ] >>)

\* UserActivitySummaryService.post_process_aggregation on a non-empty frame:
\* result.get('summary', [{}])[0] raises IndexError on an empty facet
E2_Activity_post_process(df) ==
    IF df[1].summary = <<>> THEN Raise("IndexError")
    ELSE LET summary == df[1].summary[1]
         IN  OkValue("user_activity_summary",
                 [ keys |-> {"summary", "actions_by_type", "top_10_users",
                             "hourly_distribution", "peak_hours", "weekly_distribution",
                             "daily_statistics"},
                   summary |->
                       IF summary.total_users > 0
                       THEN [ total_actions |-> summary.total_actions,
                              total_users |-> summary.total_users,
                              total_action_types |-> summary.total_action_types,
                              date_range |-> summary.date_range,
                              average_actions_per_user |->
                                  Round2(summary.total_actions, summary.total_users) ]
                       ELSE summary ])

\* analyze_with_pandas of the two services: a payload, or Raise when the
\* computation throws
E2_analyze_with_pandas(service, rows) ==
    IF service = "sales_by_region"
    THEN IF ~({"region", "sales_amount"} \subseteq Columns(rows))
         THEN ErrorPayload("Missing required columns")
         ELSE OkValue("sales_by_region", E2_Sales_pandas(rows))
    ELSE IF ~({"user_id", "action_type", "timestamp"} \subseteq Columns(rows))
         THEN ErrorPayload("Missing required columns")
         ELSE IF \E i \in DOMAIN rows :
                    "timestamp" \in DOMAIN rows[i] /\ ~Parseable(rows[i].timestamp)
         THEN Raise("to_datetime")
         ELSE OkValue("user_activity_summary", E2_Activity_pandas(rows))

\* collection.aggregate on the pipeline a service builds from base_query:
\* Some(documents), or None when the server raises
E2_run_aggregation(service, base_query, docs) ==
    IF service = "sales_by_region" THEN E2_Sales_pipeline(base_query, docs)
    ELSE E2_Activity_pipeline(base_query, docs)

\* post_process_aggregation of the two services on a non-empty frame
E2_post_process_aggregation(service, df) ==
    IF service = "sales_by_region"
    THEN OkValue("sales_by_region", E2_Sales_post_process(df))
    ELSE E2_Activity_post_process(df)

\* AbstractAnalysisService.process: every exception of either branch is
\* turned into an error payload.  aggregated is the outcome of
\* execute_aggregation_pipeline on the service's pipeline: Some(rows), or
\* None when the store raised.
E2_process(service, data, use_aggregation, query_builder, aggregated) ==
    IF use_aggregation /\ query_builder # None
    THEN IF aggregated = None THEN ErrorPayload("aggregation failed")
         ELSE IF aggregated[1] # <<>>
         THEN LET r == E2_post_process_aggregation(service, aggregated[1])
              IN  IF r.kind = "raise" THEN ErrorPayload(r.msg) ELSE r
         ELSE NoData("No data found")
    ELSE IF data = <<>> THEN NoData("No data to analyze")
         ELSE LET r == E2_analyze_with_pandas(service, data)
              IN  IF r.kind = "raise" THEN ErrorPayload(r.msg) ELSE r

\* sum(execution_times.values())
RECURSIVE SumValues(_)
SumValues(d) ==
    IF DOMAIN d = {} THEN 0
    ELSE LET k == CHOOSE x \in DOMAIN d : TRUE
         IN  d[k] + SumValues([x \in DOMAIN d \ {k} |-> d[x]])

\* one iteration of the loop of execute_analyses over analysis_name; st
\* holds results, execution_times, constructed (instances made) and
\* processed (the names process() ran for); duration is the rounded time the
\* iteration took, in hundredths of a millisecond
E2_execute_analyses_step(st, analysis_name, raw_data, use_aggregation, query_builder, aggregated, duration) ==
    LET got == E2_get_service(analysis_name)
    IN  IF got.service = None
        THEN [st EXCEPT !.results =
                 Put(st.results, analysis_name, ErrorPayload("service not found"))]
        ELSE [st EXCEPT
                 !.results = Put(st.results, analysis_name,
                                 E2_process(got.service[1], raw_data, use_aggregation,
                                            query_builder, aggregated)),
                 !.execution_times = Put(st.execution_times, analysis_name, duration),
                 !.constructed = st.constructed + got.made,
                 !.processed = Append(st.processed, analysis_name)]

\* a validate_analyses that forgets the names it rejects
E2_validate_step_Mut(st, name) ==
    LET got == E2_get_service(name)
    IN  IF got.service # None
        THEN [st EXCEPT !.valid = Append(st.valid, name),
                        !.constructed = st.constructed + got.made]
        ELSE st

\* one iteration of the loop of validate_analyses over name
E2_validate_step(st, name) ==
    LET got == E2_get_service(name)
    IN  IF got.service # None
        THEN [st EXCEPT !.valid = Append(st.valid, name),
                        !.constructed = st.constructed + got.made]
        ELSE [st EXCEPT !.invalid = Append(st.invalid, name)]

\* the or_conditions list analyze_data builds from an OrCondition
E2_or_dict(condition) ==
    IF condition.operator # "eq"
    THEN (condition.field :> (("$" \o condition.operator) :> condition.value))
    ELSE (condition.field :> (Plain :> condition.value))

E2_or_conditions(conditions) == [i \in DOMAIN conditions |-> E2_or_dict(conditions[i])]

\* the loop of analyze_data over request.criteria.filters
RECURSIVE E2_apply_filters(_, _)
E2_apply_filters(b, filters) ==
    IF filters = <<>> THEN b
    ELSE LET f == Head(filters)
             b1 == IF f.kind = "FilterCondition"
                   THEN E2_add_filter(b, f.field, f.operator, f.value, f.options)
                   ELSE E2_add_or_condition(b, E2_or_conditions(f.conditions))
         IN  E2_apply_filters(b1, Tail(filters))

\* analyze_data, from the new builder up to the call of execute()
E2_build_query(criteria) ==
    LET b1 == E2_apply_filters(E2_NewBuilder, criteria.filters)
        b2 == IF criteria.sort_field # None
              THEN E2_set_sort(b1, criteria.sort_field[1], criteria.sort_direction)
              ELSE b1
        b3 == IF criteria.skip # None /\ criteria.skip[1] # 0
              THEN E2_set_skip(b2, criteria.skip[1]) ELSE b2
        b4 == IF criteria.limit # None /\ criteria.limit[1] # 0
              THEN E2_set_limit(b3, criteria.limit[1]) ELSE b3
    IN  b4

\* an analyze_data that drops the batch when a name is invalid
E2_analysis_names_Mut(requested, valid_analyses) ==
    IF Len(valid_analyses) = Len(requested) THEN valid_analyses ELSE <<>>

\* the names analyze_data hands to execute_analyses
E2_analysis_names(requested, valid_analyses) == valid_analyses

(***************************************************************************)
(* The builders driven by an arbitrary caller                              *)
(***************************************************************************)
QBFields == {"a", "b"}

QBValues == {1, 2}

\* operators the callers pass: some the builders know, one they do not
\* ("contains" is an operator of the specification's grammar that neither
\* builder has a branch for)
QBOperators == {"eq", "gt", "lt", "contains"}

E1_RegexValues == {[pattern |-> "p"], [pattern |-> "p", options |-> "i"]}

E2_RegexOptions == {None, Some([case_insensitive |-> TRUE])}

QBOrGroups == {<<("a" :> (Plain :> 1))>>, <<("a" :> (Plain :> 1)), ("b" :> ("$gt" :> 2))>>}

E1_Supported == (DOMAIN op_map) \cup {"regex"}

E2_Supported == (DOMAIN E2_OperatorKey) \cup {"eq", "regex"}

\* the key under which a builder files the clause of an operator
E1_KeyOf(operator) == IF operator = "regex" THEN "$regex" ELSE op_map[operator]

E2_KeyOf(operator) ==
    IF operator = "eq" THEN Plain
    ELSE IF operator = "regex" THEN "$regex" ELSE E2_OperatorKey[operator]

NoCall == [eng |-> 0, fn |-> "none", field |-> "", op |-> "", outcome |-> ""]

NoRequest == [pc |-> "none"]

RestIdle ==
    /\ s1 = NoRequest
    /\ dal = NoRequest

AuxIdle ==
    /\ bx = NoRequest
    /\ sv = NoRequest
    /\ RestIdle

QBIdle ==
    /\ qb1 = E1_NewBuilder
    /\ qb2 = E2_NewBuilder
    /\ lastCall = NoCall
    /\ added = {}
    /\ nCalls = 0

InitQB ==
    /\ QBIdle
    /\ AuxIdle
    /\ store = <<>>
    /\ e1 = NoRequest
    /\ e2 = NoRequest

QB_E1_Did(b, fn) ==
    /\ qb1' = b
    /\ lastCall' = [eng |-> 1, fn |-> fn, field |-> "", op |-> "", outcome |-> "self"]
    /\ nCalls' = nCalls + 1
    /\ UNCHANGED <<qb2, added>>
    /\ UNCHANGED <<pipeVars, auxVars>>

QB_E2_Did(b, fn) ==
    /\ qb2' = b
    /\ lastCall' = [eng |-> 2, fn |-> fn, field |-> "", op |-> "", outcome |-> "self"]
    /\ nCalls' = nCalls + 1
    /\ UNCHANGED <<qb1, added>>
    /\ UNCHANGED <<pipeVars, auxVars>>

QB_E1_add_filter_with(field, operator, value) ==
    LET r == E1_add_filter(qb1, field, operator, value)
    IN  /\ qb1' = r.builder
        /\ lastCall' = [eng |-> 1, fn |-> "add_filter", field |-> field, op |-> operator,
                        outcome |-> IF r.raised THEN "ValueError" ELSE "self"]
        /\ added' = IF r.raised THEN added ELSE added \cup {<<1, field, operator>>}
        /\ nCalls' = nCalls + 1
        /\ UNCHANGED qb2
        /\ UNCHANGED <<pipeVars, auxVars>>

QB_E1_add_filter ==
    /\ nCalls < MaxCalls
    /\ \E field \in QBFields :
          \/ \E operator \in QBOperators, value \in QBValues :
                QB_E1_add_filter_with(field, operator, value)
          \/ \E value \in E1_RegexValues :
                QB_E1_add_filter_with(field, "regex", value)

QB_E2_add_filter_with(field, operator, value, options) ==
    /\ qb2' = E2_add_filter(qb2, field, operator, value, options)
    /\ lastCall' = [eng |-> 2, fn |-> "add_filter", field |-> field, op |-> operator,
                    outcome |-> "self"]
    /\ added' = IF operator \in E2_Supported
                THEN added \cup {<<2, field, operator>>} ELSE added
    /\ nCalls' = nCalls + 1
    /\ UNCHANGED qb1
    /\ UNCHANGED <<pipeVars, auxVars>>

QB_E2_add_filter ==
    /\ nCalls < MaxCalls
    /\ \E field \in QBFields :
          \/ \E operator \in QBOperators, value \in QBValues :
                QB_E2_add_filter_with(field, operator, value, None)
          \/ \E options \in E2_RegexOptions :
                QB_E2_add_filter_with(field, "regex", "p", options)

QB_E1_add_or_condition ==
    /\ nCalls < MaxCalls
    /\ \E g \in QBOrGroups : QB_E1_Did(E1_add_or_condition(qb1, g), "add_or_condition")

QB_E2_add_or_condition ==
    /\ nCalls < MaxCalls
    /\ \E g \in QBOrGroups : QB_E2_Did(E2_add_or_condition(qb2, g), "add_or_condition")

QB_E1_set_sort ==
    /\ nCalls < MaxCalls
    /\ \E f \in QBFields, d \in {1, -1} : QB_E1_Did(E1_set_sort(qb1, f, d), "set_sort")

QB_E2_set_sort ==
    /\ nCalls < MaxCalls
    /\ \E f \in QBFields, d \in {"asc", "desc"} : QB_E2_Did(E2_set_sort(qb2, f, d), "set_sort")

QB_E1_set_limit ==
    /\ nCalls < MaxCalls
    /\ \E n \in QBValues : QB_E1_Did(E1_set_limit(qb1, Some(n)), "set_limit")

QB_E2_set_limit ==
    /\ nCalls < MaxCalls
    /\ \E n \in QBValues : QB_E2_Did(E2_set_limit(qb2, n), "set_limit")

QB_E1_set_skip ==
    /\ nCalls < MaxCalls
    /\ \E n \in QBValues : QB_E1_Did(E1_set_skip(qb1, Some(n)), "set_skip")

QB_E2_set_skip ==
    /\ nCalls < MaxCalls
    /\ \E n \in QBValues : QB_E2_Did(E2_set_skip(qb2, n), "set_skip")

NextQB ==
    \/ QB_E1_add_filter
    \/ QB_E2_add_filter
    \/ QB_E1_add_or_condition
    \/ QB_E2_add_or_condition
    \/ QB_E1_set_sort
    \/ QB_E2_set_sort
    \/ QB_E1_set_limit
    \/ QB_E2_set_limit
    \/ QB_E1_set_skip
    \/ QB_E2_set_skip

SpecQB == InitQB /\ [][NextQB]_vars

(***************************************************************************)
(* A builder that is built and executed: one of the two builders is driven *)
(* by a caller over a collection; bx keeps the arguments of the            *)
(* add_or_condition and set_sort calls and what the last call returned.    *)
(***************************************************************************)
MaxRows == 4

RowsDocs ==
    << [_id |-> [oid |-> 1], k |-> 1, v |-> 2],
       [_id |-> [oid |-> 2], k |-> 2, v |-> 1],
       [_id |-> [oid |-> 3], k |-> 1, v |-> 1],
       [_id |-> [oid |-> 4], k |-> 2, v |-> 2],
       [_id |-> [oid |-> 5], k |-> 3, v |-> 1] >>

RowsFilters == {<<"k", "gt", 1>>, <<"k", "lte", 2>>}

\* the or-groups [A, B] and [C]
RowsOrGroups ==
    { <<("k" :> (Plain :> 1)), ("v" :> ("$gt" :> 1))>>, <<("k" :> (Plain :> 3))>> }

RowsSorts == {<<"k", 1>>, <<"k", -1>>, <<"v", -1>>}

RowsSkips == {1, 2}

RowsLimits == {0, 2}

RowsPipelines ==
    { <<[op |-> "$match", arg |-> ("k" :> ("$lt" :> 3))],
        [op |-> "$group", arg |-> [by |-> "k", sum |-> "v"]]>>,
      <<[op |-> "$sort", arg |-> <<(<<"v", 1>>)>>], [op |-> "$limit", arg |-> 3]>> }

RowsCall(fn, arg, out, raised) == [fn |-> fn, arg |-> arg, out |-> out, raised |-> raised]

InitRows ==
    /\ QBIdle
    /\ e1 = NoRequest
    /\ e2 = NoRequest
    /\ sv = NoRequest
    /\ RestIdle
    /\ store = RowsDocs
    /\ \E eng \in {1, 2} :
          bx = [pc |-> "rows", eng |-> eng, n |-> 0, ors |-> <<>>, sorts |-> <<>>,
                last |-> RowsCall("none", <<>>, None, FALSE), prevExec |-> None]

\* the driven builder becomes b; the call and its arguments are recorded
Rows_Did(b, call, ors, sorts) ==
    /\ IF bx.eng = 1 THEN qb1' = b /\ qb2' = qb2 ELSE qb2' = b /\ qb1' = qb1
    /\ bx' = [bx EXCEPT !.n = bx.n + 1, !.ors = ors, !.sorts = sorts, !.last = call,
                        !.prevExec = IF bx.last.fn = "execute" /\ ~bx.last.raised
                                     THEN bx.last.out ELSE None]
    /\ UNCHANGED <<lastCall, added, nCalls, store, e1, e2, sv, restVars>>

Rows_CanCall == bx.pc = "rows" /\ bx.n < MaxRows

Rows_add_filter ==
    /\ Rows_CanCall
    /\ \E f \in RowsFilters :
          Rows_Did(IF bx.eng = 1 THEN E1_add_filter(qb1, f[1], f[2], f[3]).builder
                   ELSE E2_add_filter(qb2, f[1], f[2], f[3], None),
                   RowsCall("add_filter", <<>>, None, FALSE), bx.ors, bx.sorts)

Rows_add_or_condition ==
    /\ Rows_CanCall
    /\ \E g \in RowsOrGroups :
          Rows_Did(IF bx.eng = 1 THEN E1_add_or_condition(qb1, g)
                   ELSE E2_add_or_condition(qb2, g),
                   RowsCall("add_or_condition", <<>>, None, FALSE), bx.ors \o g, bx.sorts)

Rows_set_sort ==
    /\ Rows_CanCall
    /\ \E srt \in RowsSorts :
          Rows_Did(IF bx.eng = 1 THEN E1_set_sort(qb1, srt[1], srt[2])
                   ELSE E2_set_sort(qb2, srt[1], IF srt[2] = 1 THEN "asc" ELSE "desc"),
                   RowsCall("set_sort", <<>>, None, FALSE), bx.ors, Append(bx.sorts, srt))

Rows_set_skip ==
    /\ Rows_CanCall
    /\ \E n \in RowsSkips :
          Rows_Did(IF bx.eng = 1 THEN E1_set_skip(qb1, Some(n)) ELSE E2_set_skip(qb2, n),
                   RowsCall("set_skip", <<>>, None, FALSE), bx.ors, bx.sorts)

Rows_set_limit ==
    /\ Rows_CanCall
    /\ \E n \in RowsLimits :
          Rows_Did(IF bx.eng = 1 THEN E1_set_limit(qb1, Some(n)) ELSE E2_set_limit(qb2, n),
                   RowsCall("set_limit", <<>>, None, FALSE), bx.ors, bx.sorts)

Rows_execute ==
    /\ Rows_CanCall
    /\ \E r \in (IF bx.eng = 1 THEN E1_execute_call(qb1, store)
                  ELSE E2_execute_call(qb2, store)) :
          Rows_Did(r.builder,
                   RowsCall("execute", <<>>, IF r.raised THEN None ELSE Some(r.rows), r.raised),
                   bx.ors, bx.sorts)

Rows_execute_aggregation_pipeline ==
    /\ Rows_CanCall
    /\ \E pipeline \in RowsPipelines :
          LET r == IF bx.eng = 1 THEN E1_execute_aggregation_pipeline(qb1, pipeline, store)
                   ELSE E2_execute_aggregation_pipeline(qb2, pipeline, store)
          IN  Rows_Did(r.builder, RowsCall("aggregate", pipeline, Some(r.rows), FALSE),
                       bx.ors, bx.sorts)

NextRows ==
    \/ Rows_add_filter
    \/ Rows_add_or_condition
    \/ Rows_set_sort
    \/ Rows_set_skip
    \/ Rows_set_limit
    \/ Rows_execute
    \/ Rows_execute_aggregation_pipeline

SpecRows == InitRows /\ [][NextRows]_vars

(***************************************************************************)
(* Requests and collections the pipelines are run on                       *)
(***************************************************************************)
Oid(n) == [oid |-> n]

SalesDocs ==
    << [_id |-> Oid(1), region |-> "north", sales_amount |-> 10, units_sold |-> 1],
       [_id |-> Oid(2), region |-> "south", sales_amount |-> 20, units_sold |-> 2],
       [_id |-> Oid(3), region |-> "north", sales_amount |-> 30, units_sold |-> 3] >>

NoRegionDocs ==
    << [_id |-> Oid(1), sales_amount |-> 10, units_sold |-> 1],
       [_id |-> Oid(2), sales_amount |-> 20, units_sold |-> 2] >>

NoAmountDocs ==
    << [_id |-> Oid(1), region |-> "north", units_sold |-> 1] >>

ActivityDocs ==
    << [_id |-> Oid(1), user_id |-> 1, action_type |-> "click", event_type |-> "click",
        timestamp |-> 5],
       [_id |-> Oid(2), user_id |-> 2, action_type |-> "view", event_type |-> "view",
        timestamp |-> 7] >>

BadTimestampDocs ==
    << [_id |-> Oid(1), user_id |-> 1, action_type |-> "click", event_type |-> "click",
        timestamp |-> -1] >>

Collections ==
    {<<>>, SalesDocs, NoRegionDocs, NoAmountDocs, ActivityDocs, BadTimestampDocs}

RECURSIVE SeqsUpTo(_, _)
SeqsUpTo(S, n) ==
    IF n = 0 THEN {<<>>}
    ELSE LET shorter == SeqsUpTo(S, n - 1)
         IN  shorter \cup {Append(q, x) : q \in shorter, x \in S}

(***************************************************************************)
(* analytics-engine_2: POST /analyze (analyze_data)                        *)
(***************************************************************************)
E2_RequestNames == {"sales_by_region", "user_activity_summary", "nonexistent_analysis"}

E2_FilterCondition(field, operator, value) ==
    [kind |-> "FilterCondition", field |-> field, operator |-> operator,
     value |-> value, options |-> None]

E2_OrCondition(conditions) == [kind |-> "OrCondition", conditions |-> conditions]

E2_Criteria(filters, sort_field, sort_direction, limit, skip) ==
    [filters |-> filters, sort_field |-> sort_field, sort_direction |-> sort_direction,
     limit |-> limit, skip |-> skip]

E2_CriteriaInputs ==
    { E2_Criteria(<<>>, None, "asc", None, Some(0)),
      E2_Criteria(<<E2_FilterCondition("sales_amount", "gt", 10)>>,
                  Some("sales_amount"), "desc", Some(1), Some(1)),
      E2_Criteria(<<E2_FilterCondition("sales_amount", "gt", 10),
                    E2_FilterCondition("sales_amount", "lt", 30)>>,
                  None, "asc", None, Some(0)),
      E2_Criteria(<<E2_OrCondition(<<E2_FilterCondition("region", "eq", "north"),
                                     E2_FilterCondition("sales_amount", "gte", 20)>>)>>,
                  Some("sales_amount"), "asc", Some(2), Some(0)),
      E2_Criteria(<<E2_FilterCondition("user_id", "elem_match", 1)>>,
                  None, "asc", None, Some(0)) }

E2_NewRequest(criteria, analyses, connected) ==
    [ pc |-> "start",
      request |-> [criteria |-> criteria, analyses |-> analyses],
      connected |-> connected,
      use_aggregation |-> FALSE,
      query_builder |-> None,
      raw_data |-> <<>>,
      valid |-> <<>>,
      invalid |-> <<>>,
      i |-> 1,
      results |-> EmptyDict,
      execution_times |-> EmptyDict,
      analysis_result |-> None,
      agg_raised |-> {},
      constructed |-> 0,
      processed |-> <<>>,
      finds |-> 0,
      fetch_raised |-> FALSE,
      response |-> None ]

InitE2 ==
    /\ QBIdle
    /\ AuxIdle
    /\ e1 = NoRequest
    /\ store \in Collections
    /\ \E criteria \in E2_CriteriaInputs,
          analyses \in SeqsUpTo(E2_RequestNames, MaxAnalyses),
          connected \in BOOLEAN :
            e2 = E2_NewRequest(criteria, analyses, connected)

\* lines 62-102: the connection check and the building of the query
E2_Start ==
    /\ e2.pc = "start"
    /\ IF ~e2.connected
       THEN e2' = [e2 EXCEPT !.pc = "failed",
                             !.response = Some([status |-> 503])]
       ELSE e2' = [e2 EXCEPT !.pc = "execute",
                             !.query_builder = Some(E2_build_query(e2.request.criteria))]
    /\ UNCHANGED <<store, e1>>
    /\ UNCHANGED <<qbVars, auxVars>>

\* an analyze_data that answers a failed fetch as if no row had matched
E2_Execute_Mut ==
    /\ e2.pc = "execute"
    /\ \E storeOk \in BOOLEAN :
          e2' = [e2 EXCEPT
                    !.raw_data = IF storeOk THEN E2_execute(e2.query_builder[1], store)
                                 ELSE <<>>,
                    !.finds = e2.finds + 1,
                    !.fetch_raised = ~storeOk,
                    !.pc = IF e2.request.analyses # <<>> THEN "validate" ELSE "respond"]
    /\ UNCHANGED <<store, e1>>
    /\ UNCHANGED <<qbVars, auxVars>>

\* line 106: raw_data = query_builder.execute(); a failing store makes
\* execute() raise (fetch_raised), which analyze_data turns into a 500
E2_Execute ==
    /\ e2.pc = "execute"
    /\ \E storeOk \in BOOLEAN :
          IF storeOk
          THEN e2' = [e2 EXCEPT
                         !.raw_data = E2_execute(e2.query_builder[1], store),
                         !.finds = e2.finds + 1,
                         !.pc = IF e2.request.analyses # <<>> THEN "validate" ELSE "respond"]
          ELSE e2' = [e2 EXCEPT !.finds = e2.finds + 1,
                                !.fetch_raised = TRUE,
                                !.pc = "failed",
                                !.response = Some([status |-> 500])]
    /\ UNCHANGED <<store, e1>>
    /\ UNCHANGED <<qbVars, auxVars>>

\* line 113: validate_analyses(request.analyses), one name per step; when
\* the loop is over, lines 115-118 choose what follows
E2_Validate ==
    /\ e2.pc = "validate"
    /\ IF e2.i <= Len(e2.request.analyses)
       THEN e2' = [E2_validate_step(e2, e2.request.analyses[e2.i]) EXCEPT !.i = e2.i + 1]
       ELSE e2' = [e2 EXCEPT !.i = 1,
                             !.pc = IF e2.valid # <<>> THEN "run" ELSE "respond"]
    /\ UNCHANGED <<store, e1>>
    /\ UNCHANGED <<qbVars, auxVars>>

\* the rounded durations an iteration of execute_analyses may measure, in
\* hundredths of a millisecond
Durations == {1, 2}

\* lines 120-126: execute_analyses over the names handed to it, one per
\* step, then its return value.  A pushed-down analysis runs its pipeline on
\* the store, which may fail; agg_raised keeps the names for which
\* execute_aggregation_pipeline raised.
E2_Run ==
    /\ e2.pc = "run"
    /\ LET names == E2_analysis_names(e2.request.analyses, e2.valid)
       IN  IF e2.i <= Len(names)
           THEN \E storeOk \in BOOLEAN, duration \in Durations :
                   LET name == names[e2.i]
                       got == E2_get_service(name)
                       pushed == /\ got.service # None
                                 /\ e2.use_aggregation
                                 /\ e2.query_builder # None
                       aggregated ==
                           IF pushed /\ storeOk
                           THEN E2_run_aggregation(got.service[1],
                                                   e2.query_builder[1].query, store)
                           ELSE None
                       st == E2_execute_analyses_step(e2, name, e2.raw_data,
                                                      e2.use_aggregation, e2.query_builder,
                                                      aggregated, duration)
                   IN  e2' = [st EXCEPT
                                 !.i = e2.i + 1,
                                 !.agg_raised = IF pushed /\ aggregated = None
                                                THEN e2.agg_raised \cup {name}
                                                ELSE e2.agg_raised]
           ELSE e2' = [e2 EXCEPT
                          !.pc = "respond",
                          !.analysis_result =
                              Some([results |-> e2.results,
                                    execution_times_ms |-> e2.execution_times,
                                    total_execution_time_ms |->
                                        SumValues(e2.execution_times)])]
    /\ UNCHANGED <<store, e1>>
    /\ UNCHANGED <<qbVars, auxVars>>

\* lines 129-138: the AnalysisResponse
E2_Respond ==
    /\ e2.pc = "respond"
    /\ e2' = [e2 EXCEPT
                 !.pc = "done",
                 !.response = Some([status |-> 200,
                                    raw_data_count |-> Len(e2.raw_data),
                                    analyses_results |->
                                        IF e2.analysis_result # None
                                        THEN e2.analysis_result[1].results
                                        ELSE EmptyDict])]
    /\ UNCHANGED <<store, e1>>
    /\ UNCHANGED <<qbVars, auxVars>>

NextE2 ==
    \/ E2_Start
    \/ E2_Execute
    \/ E2_Validate
    \/ E2_Run
    \/ E2_Respond

SpecE2 == InitE2 /\ [][NextE2]_vars

(***************************************************************************)
(* analytics-engine_2: PipelineManager.execute_analyses called on its own, *)
(* in either mode, with or without a builder, on names of any kind         *)
(***************************************************************************)
InitOrch ==
    /\ QBIdle
    /\ AuxIdle
    /\ e1 = NoRequest
    /\ store \in Collections
    /\ \E criteria \in E2_CriteriaInputs,
          analysis_names \in SeqsUpTo(E2_RequestNames, MaxAnalyses),
          use_aggregation \in BOOLEAN,
          with_builder \in BOOLEAN :
            LET b == E2_build_query(criteria)
            IN  e2 = [E2_NewRequest(criteria, analysis_names, TRUE) EXCEPT
                         !.pc = "run",
                         !.use_aggregation = use_aggregation,
                         !.query_builder = IF with_builder THEN Some(b) ELSE None,
                         !.raw_data = E2_execute(b, store),
                         !.valid = analysis_names]

NextOrch == E2_Run

SpecOrch == InitOrch /\ [][NextOrch]_vars

(***************************************************************************)
(* analytics_engine_1: POST /api/analyze (analyze_data, run_pipeline)      *)
(***************************************************************************)
E1_FilterCriterion(field, operator, value) ==
    [field |-> field, operator |-> operator, value |-> value]

E1_SearchCriteria(filters, sort, limit, skip) ==
    [filters |-> filters, or_conditions |-> None, sort |-> sort, limit |-> limit,
     skip |-> skip]

E1_CriteriaInputs ==
    { E1_SearchCriteria(None, None, Some(100), Some(0)),
      E1_SearchCriteria(Some(<<E1_FilterCriterion("sales_amount", "gt", 10)>>),
                        Some(<<[field |-> "sales_amount", direction |-> -1]>>),
                        Some(1), Some(1)),
      E1_SearchCriteria(Some(<<E1_FilterCriterion("sales_amount", "gt", 10),
                               E1_FilterCriterion("sales_amount", "lt", 30)>>),
                        None, Some(100), Some(0)),
      E1_SearchCriteria(Some(<<E1_FilterCriterion("region", "contains", "n")>>),
                        None, Some(100), Some(0)),
      [E1_SearchCriteria(None, None, Some(100), Some(0)) EXCEPT
          !.or_conditions = Some(<<DictGroup(("region" :> (Plain :> "north")))>>)],
      [E1_SearchCriteria(Some(<<E1_FilterCriterion("sales_amount", "gt", 10)>>),
                         None, Some(100), Some(0)) EXCEPT
          !.or_conditions = Some(<<DictGroup(("region" :> (Plain :> "north"))),
                                   DictGroup(("sales_amount" :> (Plain :> 20)))>>)] }

E1_AnalysisRequest(name, params) == [name |-> name, params |-> params]

GroupingParams(columns, aggregated) ==
    [group_by_columns |-> [t |-> "list", v |-> columns],
     aggregations |-> [t |-> "dict", v |-> [c \in aggregated |-> <<"sum">>]]]

E1_AnalysisInputs ==
    { E1_AnalysisRequest("sales_by_region", EmptyDict),
      E1_AnalysisRequest("user_activity_summary", EmptyDict),
      E1_AnalysisRequest("group_and_aggregate", GroupingParams(<<"region">>, {"sales_amount"})),
      E1_AnalysisRequest("group_and_aggregate", EmptyDict),
      E1_AnalysisRequest("group_and_aggregate", GroupingParams(<<"city">>, {"sales_amount"})),
      E1_AnalysisRequest("nonexistent_analysis", EmptyDict) }

E1_NewRequest(criteria, analyses, db) ==
    [ pc |-> "start",
      request |-> [criteria |-> criteria, analyses |-> analyses],
      sent |-> [criteria |-> criteria, analyses |-> analyses],
      db |-> db,
      services_to_run |-> <<>>,
      i |-> 1,
      query_builder |-> None,
      raw_data |-> None,
      results |-> EmptyDict,
      given |-> <<>>,
      finds |-> 0,
      aggregates |-> 0,
      pushed_over |-> None,
      raised |-> None,
      response |-> None ]

InitE1 ==
    /\ QBIdle
    /\ AuxIdle
    /\ e2 = NoRequest
    /\ store \in Collections
    /\ \E criteria \in E1_CriteriaInputs,
          analyses \in SeqsUpTo(E1_AnalysisInputs, MaxAnalyses),
          db \in BOOLEAN :
            e1 = E1_NewRequest(criteria, analyses, db)

\* analyze_data: an exception of run_pipeline becomes an HTTP error
E1_Fail(st) ==
    [st EXCEPT !.pc = "failed",
               !.response = Some([status |-> E1_status_of(st.raised[1].type),
                                  raised |-> st.raised[1]])]

\* endpoints.py lines 56-61: the readiness check
E1_Start ==
    /\ e1.pc = "start"
    /\ IF ~e1.db
       THEN e1' = [e1 EXCEPT !.pc = "failed",
                             !.response = Some([status |-> 503, raised |-> None])]
       ELSE e1' = [e1 EXCEPT !.pc = "resolve"]
    /\ UNCHANGED <<store, e2>>
    /\ UNCHANGED <<qbVars, auxVars>>

\* run_pipeline lines 77-89, one requested analysis per step
E1_Resolve ==
    /\ e1.pc = "resolve"
    /\ IF e1.i <= Len(e1.request.analyses)
       THEN LET st == E1_resolve_step(e1, e1.request.analyses[e1.i])
            IN  e1' = IF st.raised # None THEN E1_Fail(st) ELSE [st EXCEPT !.i = e1.i + 1]
       ELSE e1' = [e1 EXCEPT !.pc = "build", !.i = 1]
    /\ UNCHANGED <<store, e2>>
    /\ UNCHANGED <<qbVars, auxVars>>

\* run_pipeline lines 92-95: needs_raw_data and the base query
E1_BuildBaseQuery ==
    /\ e1.pc = "build"
    /\ LET r == E1_build_base_query(e1.request.criteria)
       IN  IF r.raised
           THEN e1' = E1_Fail([e1 EXCEPT
                                  !.request.criteria.or_conditions = r.or_conditions,
                                  !.raised =
                                  Some([type |-> r.type, in |-> "build", name |-> ""])])
           ELSE e1' = [e1 EXCEPT
                          !.request.criteria.or_conditions = r.or_conditions,
                          !.query_builder = Some(r.builder),
                          !.pc = IF E1_needs_raw_data(e1.services_to_run)
                                 THEN "fetch" ELSE "run"]
    /\ UNCHANGED <<store, e2>>
    /\ UNCHANGED <<qbVars, auxVars>>

\* run_pipeline line 96: raw_data = await query_builder.execute(); a
\* failing store, or a filter the server rejects, makes execute() raise
E1_Fetch ==
    /\ e1.pc = "fetch"
    /\ \E storeOk \in BOOLEAN :
          LET st == [e1 EXCEPT !.finds = e1.finds + 1]
          IN  IF storeOk /\ ~E1_StoreRejects(e1.query_builder[1])
              THEN e1' = [st EXCEPT !.raw_data = Some(E1_execute(e1.query_builder[1], store)),
                                    !.pc = "run"]
              ELSE e1' = E1_Fail([st EXCEPT !.raised =
                                     Some([type |-> "PyMongoError", in |-> "fetch", name |-> ""])])
    /\ UNCHANGED <<store, e2>>
    /\ UNCHANGED <<qbVars, auxVars>>

\* run_pipeline lines 99-111, one resolved service per step; the pipeline of
\* a pushed-down analysis runs on the store, which may fail or reject its
\* $match; pushed_over
\* keeps the documents that pipeline aggregated over
E1_Run ==
    /\ e1.pc = "run"
    /\ IF e1.i <= Len(e1.services_to_run)
       THEN \E storeOk \in BOOLEAN :
               LET s  == e1.services_to_run[e1.i]
                   pipeline == E1_UserActivity_pipeline(e1.query_builder[1]._filter)
                   answers == storeOk /\ ~E1_StoreRejects(e1.query_builder[1])
                   ag == IF answers
                         THEN Some(E1_execute_aggregation_pipeline(
                                       e1.query_builder[1], pipeline, store).rows)
                         ELSE None
                   st0 == E1_run_step(e1, s, ag)
                   st == IF answers /\ ~E1_FETCH_DATA_FIRST(s.service)
                         THEN [st0 EXCEPT !.pushed_over =
                                  Some(Aggregate(BeforeGroup(pipeline), store))]
                         ELSE st0
               IN  /\ storeOk \/ ~E1_FETCH_DATA_FIRST(s.service)
                   /\ e1' = IF st.raised # None THEN E1_Fail(st)
                            ELSE [st EXCEPT !.i = e1.i + 1]
       ELSE e1' = [e1 EXCEPT !.pc = "done",
                             !.response = Some([status |-> 200, body |-> e1.results])]
    /\ UNCHANGED <<store, e2>>
    /\ UNCHANGED <<qbVars, auxVars>>

NextE1 ==
    \/ E1_Start
    \/ E1_Resolve
    \/ E1_BuildBaseQuery
    \/ E1_Fetch
    \/ E1_Run

SpecE1 == InitE1 /\ [][NextE1]_vars

(***************************************************************************)
(* A request in flight on either engine                                    *)
(***************************************************************************)
InitAnalyze == InitE1 \/ InitE2

NextAnalyze == NextE1 \/ NextE2

SpecAnalyze == InitAnalyze /\ [][NextAnalyze]_vars

(***************************************************************************)
(* An analysis service invoked on its own: process() of a registered       *)
(* service of either engine on a dataset.  For analytics-engine_2 both     *)
(* strategies of the service are run on the dataset: in memory on the rows,*)
(* and pushed down to a collection that holds them.                        *)
(***************************************************************************)
PartRegionDocs ==
    << [_id |-> Oid(1), region |-> "north", sales_amount |-> 10, units_sold |-> 1],
       [_id |-> Oid(2), region |-> "south", sales_amount |-> 25, units_sold |-> 2],
       [_id |-> Oid(3), sales_amount |-> 20, units_sold |-> 2] >>

SvcDatasets == Collections \cup {PartRegionDocs}

SvcParams ==
    { EmptyDict,
      GroupingParams(<<"region">>, {"sales_amount"}),
      GroupingParams(<<"city">>, {"sales_amount"}),
      [group_by_columns |-> [t |-> "str", v |-> <<"region">>],
       aggregations |-> [t |-> "dict", v |-> [c \in {"sales_amount"} |-> <<"sum">>]]] }

InitSvc ==
    /\ QBIdle
    /\ e1 = NoRequest
    /\ e2 = NoRequest
    /\ bx = NoRequest
    /\ RestIdle
    /\ store = <<>>
    /\ \/ \E service \in E1_AVAILABLE_SERVICES, rows \in SvcDatasets, params \in SvcParams :
             sv = [pc |-> "svc", eng |-> 1, service |-> service, rows |-> rows,
                   params |-> params, out |-> None, pandas |-> None, pushed |-> None]
       \/ \E service \in E2_AVAILABLE_SERVICES, rows \in SvcDatasets :
             sv = [pc |-> "svc", eng |-> 2, service |-> service, rows |-> rows,
                   params |-> EmptyDict, out |-> None, pandas |-> None, pushed |-> None]

\* run_pipeline lines 101-109 for one service: process() on the fetched rows,
\* or on a builder over the collection for a service that fetches nothing
Svc_E1_process ==
    /\ sv.pc = "svc" /\ sv.eng = 1 /\ sv.out = None
    /\ LET b  == E1_NewBuilder
           ag == E1_execute_aggregation_pipeline(
                     b, E1_UserActivity_pipeline(b._filter), sv.rows).rows
       IN  sv' = [sv EXCEPT !.out =
                     Some(IF E1_FETCH_DATA_FIRST(sv.service)
                          THEN E1_process(sv.service, Some(sv.rows), sv.params, None, None)
                          ELSE E1_process(sv.service, None, sv.params, Some(b), Some(ag)))]
    /\ UNCHANGED <<qbVars, pipeVars, bx, restVars>>

\* process(data, use_aggregation=False)
Svc_E2_pandas ==
    /\ sv.pc = "svc" /\ sv.eng = 2 /\ sv.pandas = None
    /\ sv' = [sv EXCEPT !.pandas = Some(E2_process(sv.service, sv.rows, FALSE, None, None))]
    /\ UNCHANGED <<qbVars, pipeVars, bx, restVars>>

\* process(data, use_aggregation=True, query_builder, base_query) with a
\* builder over a collection that holds the rows
Svc_E2_pushed ==
    /\ sv.pc = "svc" /\ sv.eng = 2 /\ sv.pushed = None
    /\ sv' = [sv EXCEPT !.pushed =
                  Some(E2_process(sv.service, sv.rows, TRUE, Some(E2_NewBuilder),
                                  E2_run_aggregation(sv.service, E2_NewBuilder.query,
                                                     sv.rows)))]
    /\ UNCHANGED <<qbVars, pipeVars, bx, restVars>>

NextSvc ==
    \/ Svc_E1_process
    \/ Svc_E2_pandas
    \/ Svc_E2_pushed

SpecSvc == InitSvc /\ [][NextSvc]_vars

(***************************************************************************)
(* sal_1: GenericDataLoader (dal.py).  A Python value is tagged with its   *)
(* type; a str is the sequence of its characters, so that escaping and     *)
(* anchoring a pattern are operations on characters.  In a query document  *)
(* a field is bound either to a plain value or to a dict of operator keys, *)
(* [t |-> "dict", v |-> ...].                                              *)
(***************************************************************************)
MaxFilters == 2

StrVal(chars) == [t |-> "str", chars |-> chars, items |-> <<>>]

\* a one-digit int, with the characters of its decimal form
IntVal(n) == [t |-> "int", chars |-> <<ToString(n)>>, items |-> <<>>]

BoolVal(b) ==
    [t |-> "bool",
     chars |-> IF b THEN <<"T", "r", "u", "e">> ELSE <<"F", "a", "l", "s", "e">>,
     items |-> <<>>]

ListVal(items) == [t |-> "list", chars |-> <<>>, items |-> items]

DictVal(d) == [t |-> "dict", v |-> d]

\* the characters of the model's alphabet that re.escape puts a backslash
\* before
SpecialChars == {".", "^", "$", "*"}

RECURSIVE re_escape(_)
re_escape(chars) ==
    IF chars = <<>> THEN <<>>
    ELSE (IF Head(chars) \in SpecialChars THEN <<"\\", Head(chars)>> ELSE <<Head(chars)>>)
         \o re_escape(Tail(chars))

\* str(value) of a str, an int or a bool: its characters
str(value) == value.chars

\* bool(value)
bool(value) ==
    IF value.t = "bool" THEN value = BoolVal(TRUE)
    ELSE IF value.t = "int" THEN value # IntVal(0)
    ELSE IF value.t = "list" THEN value.items # <<>>
    ELSE value.chars # <<>>

\* int(value): Some(n), or None when int() raises ValueError or TypeError
\* (no str of the model spells a number)
int(value) ==
    IF value.t = "int" THEN Some(value)
    ELSE IF value.t = "bool" THEN Some(IF bool(value) THEN IntVal(1) ELSE IntVal(0))
    ELSE None

\* lines 149-204: the field_query one condition produces (EQUALS, which
\* writes the query itself, apart)
S1_field_query(c) ==
    LET insensitive == IF c.case_sensitive THEN EmptyDict ELSE ("$options" :> "i")
    IN  CASE c.operator = "ne"       -> ("$ne" :> c.value)
          [] c.operator = "gt"       -> ("$gt" :> c.value)
          [] c.operator = "gte"      -> ("$gte" :> c.value)
          [] c.operator = "lt"       -> ("$lt" :> c.value)
          [] c.operator = "lte"      -> ("$lte" :> c.value)
          [] c.operator = "contains" -> ("$regex" :> re_escape(str(c.value))) @@ insensitive
          [] c.operator = "starts"   ->
                 ("$regex" :> (<<"^">> \o re_escape(str(c.value)))) @@ insensitive
          [] c.operator = "ends"     ->
                 ("$regex" :> (re_escape(str(c.value)) \o <<"$">>)) @@ insensitive
          [] c.operator = "in"       ->
                 ("$in" :> (IF c.value.t = "list" THEN c.value ELSE ListVal(<<c.value>>)))
          [] c.operator = "nin"      ->
                 ("$nin" :> (IF c.value.t = "list" THEN c.value ELSE ListVal(<<c.value>>)))
          [] c.operator = "regex"    -> ("$regex" :> str(c.value)) @@ insensitive
          [] c.operator = "exists"   -> ("$exists" :> bool(c.value))
          [] c.operator = "size"     -> ("$size" :> int(c.value)[1])

\* dict.update
Update(d, e) == [k \in DOMAIN d \cup DOMAIN e |-> IF k \in DOMAIN e THEN e[k] ELSE d[k]]

\* one iteration of the loop of _build_mongodb_filter (lines 143-216)
S1_build_step(query, c) ==
    IF c.operator = "eq" THEN Put(query, c.field, c.value)
    ELSE LET field_query == S1_field_query(c)
         IN  IF c.field \in DOMAIN query
             THEN IF query[c.field].t = "dict"
                  THEN Put(query, c.field, DictVal(Update(query[c.field].v, field_query)))
                  ELSE Put(query, c.field,
                           DictVal(Update(("$eq" :> query[c.field]), field_query)))
             ELSE Put(query, c.field, DictVal(field_query))

\* int(value) raises for the condition
S1_raises(c) == c.operator = "size" /\ int(c.value) = None

\* _build_mongodb_filter: Some(query), or None when a conversion raises
RECURSIVE S1_build_from(_, _)
S1_build_from(query, filters) ==
    IF filters = <<>> THEN Some(query)
    ELSE IF S1_raises(Head(filters)) THEN None
    ELSE S1_build_from(S1_build_step(query, Head(filters)), Tail(filters))

S1_build_mongodb_filter(filters) == S1_build_from(EmptyDict, filters)

(***************************************************************************)
(* _build_mongodb_filter applied to a list of conditions, and to the same  *)
(* conditions in another order                                             *)
(***************************************************************************)
S1_FilterCondition(field, operator, value, case_sensitive) ==
    [field |-> field, operator |-> operator, value |-> value,
     case_sensitive |-> case_sensitive]

S1_Text == StrVal(<<"a", ".">>)

S1_Conditions ==
    { S1_FilterCondition("f", op, S1_Text, FALSE) : op \in {"eq", "ne", "in", "regex"} }
    \cup { S1_FilterCondition("f", op, IntVal(5), FALSE) :
               op \in {"gt", "gte", "lt", "lte", "size"} }
    \cup { S1_FilterCondition("f", op, S1_Text, cs) :
               op \in {"contains", "starts", "ends"}, cs \in BOOLEAN }
    \cup { S1_FilterCondition("f", "nin", ListVal(<<IntVal(5)>>), FALSE),
           S1_FilterCondition("f", "exists", BoolVal(TRUE), FALSE),
           S1_FilterCondition("f", "size", S1_Text, FALSE),
           S1_FilterCondition("g", "eq", IntVal(5), FALSE),
           S1_FilterCondition("g", "contains", S1_Text, FALSE),
           S1_FilterCondition("g", "starts", S1_Text, TRUE) }

\* the orders a list of n conditions can be put in
Orders(n) ==
    {p \in [1..n -> 1..n] : \A i, j \in 1..n : i # j => p[i] # p[j]}

\* what a call returned: the query, or raised
S1_Returned(r) ==
    IF r = None THEN [called |-> TRUE, raised |-> TRUE, query |-> EmptyDict]
    ELSE [called |-> TRUE, raised |-> FALSE, query |-> r[1]]

S1_NotCalled == [called |-> FALSE]

InitFilter ==
    /\ QBIdle
    /\ bx = NoRequest
    /\ sv = NoRequest
    /\ dal = NoRequest
    /\ e1 = NoRequest
    /\ e2 = NoRequest
    /\ store = <<>>
    /\ \E filters \in SeqsUpTo(S1_Conditions, MaxFilters) :
          s1 = [pc |-> "filter", filters |-> filters, out |-> S1_NotCalled,
                reordered |-> <<>>, out_reordered |-> S1_NotCalled]

\* _build_mongodb_filter(filters)
S1_BuildFilter ==
    /\ s1.pc = "filter"
    /\ ~s1.out.called
    /\ s1' = [s1 EXCEPT !.out = S1_Returned(S1_build_mongodb_filter(s1.filters))]
    /\ UNCHANGED <<qbVars, pipeVars, bx, sv, dal>>

\* _build_mongodb_filter on the same conditions in some order
S1_BuildReordered ==
    /\ s1.pc = "filter"
    /\ ~s1.out_reordered.called
    /\ \E p \in Orders(Len(s1.filters)) :
          LET reordered == [i \in DOMAIN s1.filters |-> s1.filters[p[i]]]
          IN  s1' = [s1 EXCEPT
                        !.reordered = reordered,
                        !.out_reordered = S1_Returned(S1_build_mongodb_filter(reordered))]
    /\ UNCHANGED <<qbVars, pipeVars, bx, sv, dal>>

NextFilter ==
    \/ S1_BuildFilter
    \/ S1_BuildReordered

SpecFilter == InitFilter /\ [][NextFilter]_vars

(***************************************************************************)
(* analytics_engine_1: the AnalyticsDAL (dal/data_access_layer.py) and the *)
(* calls made on it.  phase remembers the last connect() or disconnect():  *)
(* "new", "connected", "connect_failed" or "disconnected".                 *)
(***************************************************************************)
MaxDalCalls == 6

DalCollections == {"sales", "events"}

\* AnalyticsDAL.__init__
Dal_New == [client |-> None, db |-> None]

\* connect(): ping_ok tells whether the client could be made and the ping
\* answered; the PyMongoError of a failure is caught and both attributes
\* are reset
Dal_connect(d, ping_ok) ==
    IF ping_ok THEN [client |-> Some("client"), db |-> Some("analytics_db")]
    ELSE [client |-> None, db |-> None]

\* disconnect(): closes the client when there is one; assigns no attribute
Dal_disconnect(d) == d

\* get_query_builder(collection_name): a builder over the collection, or
\* RuntimeError when db is None
Dal_get_query_builder(d, collection_name) ==
    IF d.db = None THEN [raised |-> TRUE, collection |-> ""]
    ELSE [raised |-> FALSE, collection |-> collection_name]

InitDal ==
    /\ QBIdle
    /\ bx = NoRequest
    /\ sv = NoRequest
    /\ s1 = NoRequest
    /\ e1 = NoRequest
    /\ e2 = NoRequest
    /\ store = <<>>
    /\ dal = [pc |-> "dal", obj |-> Dal_New, phase |-> "new", n |-> 0,
              last |-> [fn |-> "none", arg |-> "", outcome |-> ""]]

\* the DAL after a call: its attributes, the phase, and the call with its
\* outcome
Dal_After(obj, phase, fn, arg, outcome) ==
    [dal EXCEPT !.obj = obj, !.phase = phase, !.n = dal.n + 1,
                !.last = [fn |-> fn, arg |-> arg, outcome |-> outcome]]

Dal_Connect ==
    /\ dal.pc = "dal" /\ dal.n < MaxDalCalls
    /\ \E ping_ok \in BOOLEAN :
          dal' = Dal_After(Dal_connect(dal.obj, ping_ok),
                           IF ping_ok THEN "connected" ELSE "connect_failed",
                           "connect", "", IF ping_ok THEN "connected" ELSE "logged")
    /\ UNCHANGED <<qbVars, pipeVars, bx, sv, s1>>

Dal_Disconnect ==
    /\ dal.pc = "dal" /\ dal.n < MaxDalCalls
    /\ dal' = Dal_After(Dal_disconnect(dal.obj), "disconnected", "disconnect", "",
                        IF dal.obj.client # None THEN "closed" ELSE "nothing")
    /\ UNCHANGED <<qbVars, pipeVars, bx, sv, s1>>

Dal_GetQueryBuilder ==
    /\ dal.pc = "dal" /\ dal.n < MaxDalCalls
    /\ \E collection_name \in DalCollections :
          LET r == Dal_get_query_builder(dal.obj, collection_name)
          IN  dal' = Dal_After(dal.obj, dal.phase, "get_query_builder", collection_name,
                               IF r.raised THEN "RuntimeError" ELSE "builder")
    /\ UNCHANGED <<qbVars, pipeVars, bx, sv, s1>>

\* endpoints.py lines 56-61: analyze_data answers 503 when dal.db is None
Dal_AnalyzeReadiness ==
    /\ dal.pc = "dal" /\ dal.n < MaxDalCalls
    /\ dal' = Dal_After(dal.obj, dal.phase, "analyze_data", "",
                        IF dal.obj.db = None THEN "503" ELSE "run_pipeline")
    /\ UNCHANGED <<qbVars, pipeVars, bx, sv, s1>>

\* endpoints.py lines 30-47: readiness_check reports the connection from
\* dal.db, and answers 503 when it is None
Dal_ReadinessCheck ==
    /\ dal.pc = "dal" /\ dal.n < MaxDalCalls
    /\ dal' = Dal_After(dal.obj, dal.phase, "readiness_check", "",
                        IF dal.obj.db = None THEN "503" ELSE "ready")
    /\ UNCHANGED <<qbVars, pipeVars, bx, sv, s1>>

NextDal ==
    \/ Dal_Connect
    \/ Dal_Disconnect
    \/ Dal_GetQueryBuilder
    \/ Dal_AnalyzeReadiness
    \/ Dal_ReadinessCheck

SpecDal == InitDal /\ [][NextDal]_vars

(***************************************************************************)
(* sal_1: GenericDataLoader.search_items (dal.py) called with a            *)
(* SearchQuery, and the quick_search route of crud_api.py.  matching is    *)
(* the sequence of stored documents that satisfy the query, in the order   *)
(* of the sort.                                                            *)
(***************************************************************************)
MaxPage == 3

MaxLimit == 3

MaxMatching == 4

\* SearchQuery: page >= 1, limit >= 1, include_count
S1_SearchQuery(page, limit, include_count) ==
    [page |-> page, limit |-> limit, include_count |-> include_count]

S1_Matching(n) == [i \in 1..n |-> [_id |-> Oid(i)]]

\* search_items(search_query): the PaginatedResponse it returns
S1_search_items(search_query, matching) ==
    LET skip  == (search_query.page - 1) * search_query.limit
        found == Limit(Skip(matching, skip), search_query.limit)
        items == [i \in DOMAIN found |-> StringifyId(found[i])]
        total == IF search_query.include_count THEN Some(Len(matching)) ELSE None
        pages == IF search_query.include_count
                 THEN Some((total[1] + search_query.limit - 1) \div search_query.limit)
                 ELSE None
    IN  [ data |-> items,
          total |-> total,
          page |-> search_query.page,
          limit |-> search_query.limit,
          pages |-> pages,
          has_next |-> IF pages # None /\ pages[1] # 0
                       THEN search_query.page < pages[1] ELSE FALSE,
          has_prev |-> search_query.page > 1 ]

S1_SearchCall(pc, args, matching) ==
    [pc |-> pc, args |-> args, matching |-> matching,
     search_query |-> None, response |-> None, out |-> None]

InitSearch ==
    /\ QBIdle
    /\ bx = NoRequest
    /\ sv = NoRequest
    /\ dal = NoRequest
    /\ e1 = NoRequest
    /\ e2 = NoRequest
    /\ store = <<>>
    /\ \E n \in 0..MaxMatching :
          \/ \E page \in 1..MaxPage, limit \in 1..MaxLimit, include_count \in BOOLEAN :
                s1 = S1_SearchCall("search",
                                   [search_query |-> S1_SearchQuery(page, limit, include_count)],
                                   S1_Matching(n))
          \/ \E limit \in 1..MaxLimit :
                s1 = S1_SearchCall("quick", [limit |-> limit], S1_Matching(n))

\* search_items called with the caller's SearchQuery
S1_SearchItems ==
    /\ s1.pc = "search"
    /\ LET q == s1.args.search_query
           r == S1_search_items(q, s1.matching)
       IN  s1' = [s1 EXCEPT !.pc = "returned",
                            !.search_query = Some(q),
                            !.response = Some(r),
                            !.out = Some(r)]
    /\ UNCHANGED <<qbVars, pipeVars, bx, sv, dal>>

\* quick_search(q, limit): a SearchQuery with the default page and no
\* count; the route answers the data of the response
S1_QuickSearch ==
    /\ s1.pc = "quick"
    /\ LET q == S1_SearchQuery(1, s1.args.limit, FALSE)
           r == S1_search_items(q, s1.matching)
       IN  s1' = [s1 EXCEPT !.pc = "returned",
                            !.search_query = Some(q),
                            !.response = Some(r),
                            !.out = Some(r.data)]
    /\ UNCHANGED <<qbVars, pipeVars, bx, sv, dal>>

NextSearch ==
    \/ S1_SearchItems
    \/ S1_QuickSearch

SpecSearch == InitSearch /\ [][NextSearch]_vars

(***************************************************************************)
(* sal_1: GenericDataLoader.bulk_create (dal.py).  The items are inserted  *)
(* in batches of at most max_bulk_size; each insert_many(batch,            *)
(* ordered=False) is one step, answered by the store with the set of       *)
(* positions of the batch it could not write, or with another exception.   *)
(***************************************************************************)
MaxItems == 4

MaxBulkSize == 2

\* BulkResult()
S1_BulkResult ==
    [success_count |-> 0, error_count |-> 0, errors |-> <<>>, inserted_ids |-> <<>>,
     modified_count |-> 0, deleted_count |-> 0]

S1_Items(n) == [k \in 1..n |-> [name |-> k]]

\* the positions of a set, in increasing order
RECURSIVE Ascending(_)
Ascending(S) ==
    IF S = {} THEN <<>>
    ELSE LET m == CHOOSE x \in S : \A y \in S : x <= y
         IN  <<m>> \o Ascending(S \ {m})

\* the batch prepared_items[i : i + max_bulk_size]
S1_batch(prepared_items, i, max_bulk_size) ==
    Limit(Skip(prepared_items, i), max_bulk_size)

\* insert_many answered: every document of the batch was written and got
\* the identifier of its position in the collection
S1_batch_inserted(results, i, batch) ==
    [results EXCEPT
        !.success_count = @ + Len(batch),
        !.inserted_ids = @ \o [j \in DOMAIN batch |-> Str(Oid(i + j))]]

\* insert_many raised BulkWriteError: failed holds the positions of the
\* batch that were not written; the others were (ordered=False)
S1_batch_write_errors(results, batch, failed) ==
    [results EXCEPT
        !.success_count = @ + (Len(batch) - Cardinality(failed)),
        !.error_count = @ + Cardinality(failed),
        !.errors = @ \o [k \in 1..Cardinality(failed) |->
                            [index |-> Ascending(failed)[k] - 1, errmsg |-> "E11000"]]]

InitBulk ==
    /\ QBIdle
    /\ bx = NoRequest
    /\ sv = NoRequest
    /\ dal = NoRequest
    /\ e1 = NoRequest
    /\ e2 = NoRequest
    /\ store = <<>>
    /\ \E n \in 0..MaxItems, max_bulk_size \in 1..MaxBulkSize :
          s1 = [pc |-> "bulk", items |-> S1_Items(n), max_bulk_size |-> max_bulk_size,
                i |-> 0, results |-> S1_BulkResult, out |-> None]

\* one pass of the loop over the batches
S1_BulkBatch ==
    /\ s1.pc = "bulk"
    /\ s1.i < Len(s1.items)
    /\ LET batch == S1_batch(s1.items, s1.i, s1.max_bulk_size)
       IN  \/ \E failed \in SUBSET DOMAIN batch :
                 s1' = [s1 EXCEPT
                          !.i = @ + s1.max_bulk_size,
                          !.results = IF failed = {}
                                      THEN S1_batch_inserted(@, s1.i, batch)
                                      ELSE S1_batch_write_errors(@, batch, failed)]
           \/ s1' = [s1 EXCEPT !.pc = "bulk_raised", !.out = Some("RuntimeError")]
    /\ UNCHANGED <<qbVars, pipeVars, bx, sv, dal>>

\* the loop is over: bulk_create returns its BulkResult
S1_BulkReturn ==
    /\ s1.pc = "bulk"
    /\ s1.i >= Len(s1.items)
    /\ s1' = [s1 EXCEPT !.pc = "bulk_returned", !.out = Some(s1.results)]
    /\ UNCHANGED <<qbVars, pipeVars, bx, sv, dal>>

NextBulk ==
    \/ S1_BulkBatch
    \/ S1_BulkReturn

SpecBulk == InitBulk /\ [][NextBulk]_vars

(***************************************************************************)
(* Claims about analytics_engine_1's run_pipeline (checked under SpecE1)   *)
(***************************************************************************)
E1_RequestedNames == {e1.request.analyses[k].name : k \in DOMAIN e1.request.analyses}

E1_UnknownAt(k) == e1.request.analyses[k].name \notin E1_AVAILABLE_SERVICES

E1_HasUnknown == \E k \in DOMAIN e1.request.analyses : E1_UnknownAt(k)

\* an exception raised by an analysis itself (not by the store) left
\* run_pipeline
E1_AnalysisAborted ==
    /\ e1.pc = "failed"
    /\ e1.raised # None
    /\ e1.raised[1].in = "run"
    /\ e1.raised[1].type # "PyMongoError"

\* C1: when one of the requested analyses fails, the result map holds an
\* error entry for it and an entry for every other requested analysis; the
\* failure never aborts the batch, so a batch of registered analyses on a
\* healthy store ends with one entry per distinct requested name.
C1_FailureIsolated ==
    /\ ~E1_AnalysisAborted
    /\ e1.pc = "done" => DOMAIN e1.response[1].body = E1_RequestedNames

\* C2: if a requested name is not in the registry, run_pipeline aborts with
\* an error naming that analysis before the base query is built or executed
\* and before any analysis runs, wherever the unknown name stands in the
\* request: no store read, no result entry.
C2_UnknownNameAbortsEarly ==
    E1_HasUnknown =>
        /\ e1.pc \in {"start", "resolve", "failed"}
        /\ e1.finds = 0
        /\ e1.aggregates = 0
        /\ e1.given = <<>>
        /\ e1.results = EmptyDict
        /\ e1.query_builder = None
        /\ (e1.pc = "failed" /\ e1.db) =>
              /\ e1.response[1].status = 400
              /\ e1.raised[1].in = "resolve"
              /\ \E k \in DOMAIN e1.request.analyses :
                    /\ E1_UnknownAt(k)
                    /\ \A j \in 1..(k - 1) : ~E1_UnknownAt(j)
                    /\ e1.raised[1].name = e1.request.analyses[k].name

C2_Witness ==
    /\ e1.pc = "failed"
    /\ e1.response[1].status = 400
    /\ Len(e1.request.analyses) = 2
    /\ ~E1_UnknownAt(1)
    /\ E1_UnknownAt(2)
    /\ Len(e1.services_to_run) = 1

\* the handler is past the point where the shared rows are fetched
E1_PastFetch ==
    \/ e1.pc \in {"run", "done"}
    \/ e1.pc = "failed" /\ e1.raised # None /\ e1.raised[1].in \in {"fetch", "run"}

\* C5: execute() of the base query is called exactly once if a resolved
\* analysis declares FETCH_DATA_FIRST and not at all otherwise; every
\* row-needing analysis that runs is handed the rows of that one fetch.
C5_FetchOnce ==
    LET rowNeeding == \E k \in DOMAIN e1.services_to_run :
                          e1.services_to_run[k].service \in
                              {"sales_by_region", "group_and_aggregate"}
    IN  /\ e1.finds <= 1
        /\ ~E1_PastFetch => e1.finds = 0
        /\ E1_PastFetch => e1.finds = (IF rowNeeding THEN 1 ELSE 0)
        /\ \A k \in DOMAIN e1.given :
              e1.given[k].name \in {"sales_by_region", "group_and_aggregate"} =>
                  e1.given[k].data = Some(E1_execute(e1.query_builder[1], store))
        /\ e1.pc = "done" =>
              \A k \in DOMAIN e1.services_to_run : e1.given[k].name = e1.services_to_run[k].name

C5_Witness ==
    /\ e1.pc = "done"
    /\ e1.finds = 1
    /\ Len(e1.given) = 2
    /\ e1.given[1].name = "sales_by_region"
    /\ e1.given[2].name = "group_and_aggregate"
    /\ e1.given[1].data # Some(<<>>)
    /\ e1.given[2].data = e1.given[1].data

(***************************************************************************)
(* Claims about analytics-engine_2's analyze request (checked under SpecE2)*)
(***************************************************************************)
E2_Registered(name) == name \in E2_AVAILABLE_SERVICES

E2_Unregistered(name) == name \notin E2_AVAILABLE_SERVICES

E2_Requested == {e2.request.analyses[k] : k \in DOMAIN e2.request.analyses}

E2_Processed == {e2.processed[k] : k \in DOMAIN e2.processed}

E2_AnalysesOver == e2.pc \in {"respond", "done"}

\* C3: for a requested list mixing registered and unregistered names,
\* validate_analyses reports every unregistered name as invalid, no
\* unregistered name is executed, and every registered name of the list is
\* executed and has a result entry once the analyses are over.
C3_ValidStillRun ==
    /\ \A n \in E2_Processed : E2_Registered(n)
    /\ E2_AnalysesOver =>
          /\ \A n \in E2_Requested :
                E2_Unregistered(n) => \E k \in DOMAIN e2.invalid : e2.invalid[k] = n
          /\ \A n \in E2_Requested :
                E2_Registered(n) =>
                    /\ n \in E2_Processed
                    /\ n \in DOMAIN e2.results
                    /\ e2.results[n].msg # "service not found"

C3_Witness ==
    /\ e2.pc = "done"
    /\ e2.response[1].status = 200
    /\ \E n \in E2_Requested : E2_Unregistered(n)
    /\ \E n \in E2_Requested : E2_Registered(n) /\ n \in DOMAIN e2.response[1].analyses_results

\* C4: every requested name unknown to the registry is reported in the
\* response built for the request (an error entry under its name); it is
\* never silently dropped.
C4_UnknownNamesReported ==
    (e2.pc = "done" /\ e2.response[1].status = 200) =>
        \A n \in E2_Requested :
            E2_Unregistered(n) => n \in DOMAIN e2.response[1].analyses_results

\* C6: validate_analyses partitions the requested names: the valid list is
\* the requested names that are registry keys, the invalid list is the
\* others, both in request order (at every point of the loop, for the names
\* seen so far).
C6_ValidatePartitions ==
    LET seen == IF e2.pc = "validate"
                THEN SubSeq(e2.request.analyses, 1, e2.i - 1)
                ELSE e2.request.analyses
    IN  e2.pc \in {"validate", "run", "respond", "done"} =>
            /\ e2.valid = SelectSeq(seen, E2_Registered)
            /\ e2.invalid = SelectSeq(seen, E2_Unregistered)

C6_Witness ==
    /\ e2.pc = "run"
    /\ Len(e2.valid) = 1
    /\ Len(e2.invalid) = 1
    /\ e2.request.analyses[1] = e2.invalid[1]

\* C7: validating a list of names constructs no analysis service instance.
C7_ValidateConstructsNothing ==
    e2.pc = "validate" => e2.constructed = 0

(***************************************************************************)
(* Claims about the builders (checked under SpecQB)                        *)
(***************************************************************************)
E1_HasClause(field, operator) ==
    /\ field \in DOMAIN qb1._filter
    /\ E1_KeyOf(operator) \in DOMAIN qb1._filter[field]

E2_HasClause(field, operator) ==
    /\ field \in DOMAIN qb2.query
    /\ E2_KeyOf(operator) \in DOMAIN qb2.query[field]

\* C8: after any sequence of add_filter calls the accumulated filter holds a
\* clause for every (field, operator) pair that was added; operators added
\* to one field are merged into the field's sub-document, none is lost.
C8_EveryAddedPairKept ==
    \A t \in added :
        IF t[1] = 1 THEN E1_HasClause(t[2], t[3]) ELSE E2_HasClause(t[2], t[3])

LastIsAddFilter(eng) == lastCall.eng = eng /\ lastCall.fn = "add_filter"

LastUnsupported ==
    \/ LastIsAddFilter(1) /\ lastCall.op \notin E1_Supported
    \/ LastIsAddFilter(2) /\ lastCall.op \notin E2_Supported

C10_UnknownOperatorSkipped ==
    [][ ( /\ nCalls' = nCalls + 1
          /\ lastCall'.eng = 2
          /\ lastCall'.fn = "add_filter"
          /\ lastCall'.op \notin E2_Supported )
        => (qb2' = qb2 /\ lastCall'.outcome = "self") ]_vars

C10_Witness ==
    /\ LastIsAddFilter(2)
    /\ lastCall.op \notin E2_Supported
    /\ lastCall.outcome = "self"
    /\ qb2.query # EmptyDict
    /\ qb2.sort_params # None

(***************************************************************************)
(* Claims about a builder that is built and executed (checked under        *)
(* SpecRows)                                                               *)
(***************************************************************************)
\* the fields of the driven builder, whichever engine it is of
Rows_Filter == IF bx.eng = 1 THEN qb1._filter ELSE qb2.query

Rows_SortList ==
    IF bx.eng = 1
    THEN (IF qb1._sort = None THEN <<>> ELSE qb1._sort[1])
    ELSE (IF qb2.sort_params = None THEN <<>> ELSE qb2.sort_params[1])

Rows_SkipCount ==
    IF bx.eng = 1 THEN (IF qb1._skip = None THEN 0 ELSE qb1._skip[1]) ELSE qb2.skip_count

Rows_LimitCount == IF bx.eng = 1 THEN qb1._limit ELSE qb2.limit_count

Rows_Executed == bx.last.fn = "execute" /\ ~bx.last.raised

\* C11: successive add_or_condition calls accumulate into one flat
\* top-level OR list: the filter's "$or" is the concatenation, in call
\* order, of the condition lists passed so far (after [A,B] and then [C] it
\* is [A,B,C]); no call replaces earlier clauses and no element of the list
\* is itself an OR.
C11_OrListIsConcatenation ==
    /\ bx.ors = <<>> => "$or" \notin DOMAIN Rows_Filter
    /\ bx.ors # <<>> =>
          /\ "$or" \in DOMAIN Rows_Filter
          /\ Rows_Filter["$or"] = bx.ors
          /\ \A i \in DOMAIN Rows_Filter["$or"] :
                "$or" \notin DOMAIN Rows_Filter["$or"][i]

C11_Witness ==
    /\ bx.ors = <<("k" :> (Plain :> 1)), ("v" :> ("$gt" :> 1)), ("k" :> (Plain :> 3))>>
    /\ Len(Rows_Filter["$or"]) = 3
    /\ bx.last.fn = "add_or_condition"

\* rows are in the order of a compound sort: two rows are ordered by the
\* first key of the list on which they differ
Rows_OrderedBy(rows, sorts) ==
    \A i \in DOMAIN rows, j \in DOMAIN rows :
        i < j =>
            \A m \in DOMAIN sorts :
                (\A l \in 1..(m - 1) : rows[i][sorts[l][1]] = rows[j][sorts[l][1]]) =>
                    IF sorts[m][2] = 1
                    THEN rows[i][sorts[m][1]] <= rows[j][sorts[m][1]]
                    ELSE rows[i][sorts[m][1]] >= rows[j][sorts[m][1]]

\* C12: set_sort appends: the builder's sort list holds one (field,
\* direction) entry per set_sort call, in call order, and execute() orders
\* the rows by the first call's key, then by each later call's key among
\* the rows that tie on the earlier ones.
C12_SortListIsCallLog ==
    /\ Rows_SortList = bx.sorts
    /\ Rows_Executed => Rows_OrderedBy(bx.last.out[1], bx.sorts)

C12_Witness ==
    /\ Rows_Executed
    /\ bx.sorts = <<(<<"k", 1>>), (<<"v", -1>>)>>
    /\ Len(bx.last.out[1]) = 5
    /\ bx.last.out[1][3].v = 2
    /\ bx.last.out[1][4].v = 1

\* the number an identifier stands for, native or converted to a string
IdText(id) == IF "oid" \in DOMAIN id THEN ToString(id.oid) ELSE id.str

\* a returned row is the stored document, up to the form of its _id
SameDocument(row, doc) ==
    /\ DOMAIN row = DOMAIN doc
    /\ \A f \in (DOMAIN doc) \ {"_id"} : row[f] = doc[f]
    /\ "_id" \in DOMAIN doc => IdText(row["_id"]) = IdText(doc["_id"])

Min(a, b) == IF a < b THEN a ELSE b

C14_IdsAreStrings ==
    Rows_Executed =>
        \A i \in DOMAIN bx.last.out[1] :
            "_id" \in DOMAIN bx.last.out[1][i] =>
                DOMAIN bx.last.out[1][i]["_id"] = {"str"}

\* a step that is a call of fn on the driven builder
Rows_Calls(fn) == bx'.n = bx.n + 1 /\ bx'.last.fn = fn

\* C15: execute() changes no field of the builder, and two consecutive
\* execute() calls (no builder call and no store write in between) return
\* the same row sequence.
C15_ExecuteIdempotent ==
    [][ Rows_Calls("execute") =>
            /\ qb1' = qb1
            /\ qb2' = qb2
            /\ (Rows_Executed /\ ~bx'.last.raised) => bx'.last.out = bx.last.out ]_vars

C15_Witness ==
    /\ Rows_Executed
    /\ bx.prevExec # None
    /\ bx.prevExec = bx.last.out
    /\ Rows_SkipCount > 0
    /\ bx.last.out[1] # <<>>

\* C16: execute_aggregation_pipeline runs the stages it is given, in order,
\* on the collection: it returns what a builder with no filter, sort, skip
\* or limit returns for the same stages, and it leaves the builder's four
\* fields as they were.
C16_AggregationIgnoresBuilder ==
    [][ Rows_Calls("aggregate") =>
            /\ qb1' = qb1
            /\ qb2' = qb2
            /\ bx'.last.out =
                  Some(IF bx.eng = 1
                       THEN E1_execute_aggregation_pipeline(
                                E1_NewBuilder, bx'.last.arg, store).rows
                       ELSE E2_execute_aggregation_pipeline(
                                E2_NewBuilder, bx'.last.arg, store).rows)
            /\ Len(bx'.last.out[1]) = Len(Aggregate(bx'.last.arg, store)) ]_vars

C16_Witness ==
    /\ bx.last.fn = "aggregate"
    /\ (DOMAIN Rows_Filter) \ {"$or"} # {}
    /\ Rows_SkipCount > 0
    /\ Len(bx.last.out[1]) = 2
    /\ bx.last.out[1][1].count = 2

(***************************************************************************)
(* Claims about the analysis services (checked under SpecSvc)              *)
(***************************************************************************)
\* the payloads process() has returned for the dataset
Svc_Outcomes ==
    (IF sv.out # None THEN {sv.out[1]} ELSE {})
    \cup (IF sv.pandas # None THEN {sv.pandas[1]} ELSE {})
    \cup (IF sv.pushed # None THEN {sv.pushed[1]} ELSE {})

\* C17: every registered analysis invoked with zero rows, whatever its
\* params, returns the no-data marker: not an error payload, not an exception.
C17_ZeroRowsNoData ==
    sv.rows = <<>> => \A r \in Svc_Outcomes : r.kind = "nodata"

\* C18: the region aggregate invoked on non-empty rows in which region or
\* the sales amount column is absent returns a structured error payload and
\* never raises.
C18_MissingColumnIsError ==
    ( /\ sv.service = "sales_by_region"
      /\ sv.rows # <<>>
      /\ ~({"region", "sales_amount"} \subseteq Columns(sv.rows)) ) =>
        \A r \in Svc_Outcomes : r.kind = "error"

\* both strategies have computed a result for the dataset
Svc_BothComputed ==
    /\ sv.pandas # None /\ sv.pandas[1].kind = "ok"
    /\ sv.pushed # None /\ sv.pushed[1].kind = "ok"

Svc_Totals(groups, field) == {<<groups[i].region, groups[i][field]>> : i \in DOMAIN groups}

\* C19: for every dataset the in-memory strategy and the pushed-down
\* strategy of an analysis yield the same result fields, the same grouping
\* keys with the same per-group totals, and the same top and bottom group.
C19_StrategiesAgree ==
    Svc_BothComputed =>
        LET p == sv.pandas[1].value
            q == sv.pushed[1].value
        IN  IF sv.service = "sales_by_region"
            THEN /\ DOMAIN p = DOMAIN q
                 /\ DOMAIN p.summary = DOMAIN q.summary
                 /\ \A i \in DOMAIN p.by_region, j \in DOMAIN q.by_region :
                       DOMAIN p.by_region[i] = DOMAIN q.by_region[j]
                 /\ Svc_Totals(p.by_region, "sales_amount_sum")
                       = Svc_Totals(q.by_region, "total_sales")
                 /\ p.top_region[1].region = q.top_region[1].region
                 /\ p.bottom_region[1].region = q.bottom_region[1].region
            ELSE /\ p.keys = q.keys
                 /\ DOMAIN p.summary = DOMAIN q.summary

(***************************************************************************)
(* Claims about the rows an analysis of a request works on (checked under  *)
(* SpecE1)                                                                 *)
(***************************************************************************)
\* C20: within one request the documents a pushed-down analysis aggregates
\* over are the rows execute() returned to the in-memory analyses, whatever
\* filter, skip and limit the builder holds.
C20_PushedDownSeesSameRows ==
    (e1.pushed_over # None /\ e1.raw_data # None) =>
        SeqRange(e1.pushed_over[1]) = SeqRange(e1.raw_data[1])

(***************************************************************************)
(* Claims about failures of the store during a request (checked under      *)
(* SpecAnalyze)                                                            *)
(***************************************************************************)
\* the shared fetch of the request in flight raised
E1_FetchRaised == e1.pc # "none" /\ e1.raised # None /\ e1.raised[1].in = "fetch"

E2_FetchRaised == e2.pc # "none" /\ e2.fetch_raised

\* C21: when execute() of the base query fails the request fails as a whole:
\* it ends in a server error, no analysis has been run and no response
\* carrying a row count or a result map is returned, on either engine.
C21_FetchFailureFailsRequest ==
    /\ E1_FetchRaised =>
          /\ e1.pc = "failed"
          /\ e1.response # None /\ e1.response[1].status = 500
          /\ e1.given = <<>>
          /\ e1.results = EmptyDict
    /\ E2_FetchRaised =>
          /\ e2.pc = "failed"
          /\ e2.response = Some([status |-> 500])
          /\ e2.processed = <<>>
          /\ e2.results = EmptyDict

\* a request that asked for analyses and whose fetch raised
C21_Witness ==
    /\ E2_FetchRaised
    /\ e2.request.analyses # <<>>
    /\ e2.finds = 1

(***************************************************************************)
(* Claims about execute_analyses of analytics-engine_2 (checked under      *)
(* SpecOrch)                                                               *)
(***************************************************************************)
\* C22: when execute_aggregation_pipeline raises inside a pushed-down
\* analysis, the failure leaves the orchestrator as a failure of the whole
\* request and no error entry is recorded for the analysis.
C22_TranslatorFailureEscapes ==
    \A n \in e2.agg_raised :
        /\ e2.pc = "failed"
        /\ ~(n \in DOMAIN e2.results /\ e2.results[n].kind = "error")

(***************************************************************************)
(* Claims about the request objects of analytics_engine_1 (checked under   *)
(* SpecE1)                                                                 *)
(***************************************************************************)
\* C23: building the base query and running the analyses leaves the
\* request's SearchCriteria and AnalysisRequest objects as they were sent:
\* filters, OR-condition groups, sort, skip, limit and every params map,
\* also when the request holds several OR-condition groups.
C23_RequestUnchanged ==
    e1.pc # "none" => e1.request = e1.sent

\* run_pipeline is over for a request that held two OR-condition groups,
\* the first of which the builder had taken
C23_Witness ==
    /\ e1.pc = "failed"
    /\ e1.sent.criteria.or_conditions # None
    /\ Len(e1.sent.criteria.or_conditions[1]) = 2
    /\ e1.raised # None
    /\ e1.raised[1] = [type |-> "AttributeError", in |-> "build", name |-> ""]

(***************************************************************************)
(* Claims about the durations execute_analyses reports (checked under      *)
(* SpecOrch)                                                               *)
(***************************************************************************)
\* C24: in the value execute_analyses returns, the names that have a
\* recorded duration are exactly the names that have a result entry, and
\* the total duration is the sum of the recorded durations.
C24_DurationPerResult ==
    (e2.pc # "none" /\ e2.analysis_result # None) =>
        LET r == e2.analysis_result[1]
        IN  /\ DOMAIN r.execution_times_ms = DOMAIN r.results
            /\ r.total_execution_time_ms = SumValues(r.execution_times_ms)

(***************************************************************************)
(* Claims about sal_1's _build_mongodb_filter (checked under SpecFilter)   *)
(***************************************************************************)
\* the pattern a text condition asks for: the escaped value, anchored at the
\* start for starts-with and at the end for ends-with
S1_PatternOf(c) ==
    (IF c.operator = "starts" THEN <<"^">> ELSE <<>>)
    \o re_escape(str(c.value))
    \o (IF c.operator = "ends" THEN <<"$">> ELSE <<>>)

\* C25: for every contains, starts-with or ends-with condition handed to
\* _build_mongodb_filter, the clause of its field holds the escaped value as
\* pattern (anchored as the operator asks), and holds the case-insensitive
\* option exactly when the condition is not case sensitive.
C25_TextClauseAsAsked ==
    (s1.pc = "filter" /\ s1.out.called /\ ~s1.out.raised) =>
        \A i \in DOMAIN s1.filters :
            LET c == s1.filters[i]
            IN  c.operator \in {"contains", "starts", "ends"} =>
                    LET clause == s1.out.query[c.field]
                    IN  /\ clause.t = "dict"
                        /\ "$regex" \in DOMAIN clause.v
                        /\ clause.v["$regex"] = S1_PatternOf(c)
                        /\ ("$options" \in DOMAIN clause.v) <=> ~c.case_sensitive

\* the operator keys a query binds to a field, a plain value read as $eq
S1_ClauseOf(query, field) ==
    IF field \notin DOMAIN query THEN EmptyDict
    ELSE IF query[field].t = "dict" THEN query[field].v
    ELSE ("$eq" :> query[field])

\* the condition is represented in the query: the clause of its field holds
\* every key the condition asks for, with the value it asks for
S1_Represented(c, query) ==
    LET asked == IF c.operator = "eq" THEN ("$eq" :> c.value) ELSE S1_field_query(c)
        clause == S1_ClauseOf(query, c.field)
    IN  \A k \in DOMAIN asked : k \in DOMAIN clause /\ clause[k] = asked[k]

\* C28: every condition of the list handed to _build_mongodb_filter is
\* represented in the query it returns, and the same conditions in any
\* other order give an equivalent query, also when an equals condition
\* shares its field with other operators.
C28_AllKeptAnyOrder ==
    /\ (s1.pc = "filter" /\ s1.out.called /\ ~s1.out.raised) =>
          \A i \in DOMAIN s1.filters : S1_Represented(s1.filters[i], s1.out.query)
    /\ ( /\ s1.pc = "filter"
         /\ s1.out.called /\ ~s1.out.raised
         /\ s1.out_reordered.called /\ ~s1.out_reordered.raised ) =>
          \A field \in DOMAIN s1.out.query \cup DOMAIN s1.out_reordered.query :
              S1_ClauseOf(s1.out.query, field) = S1_ClauseOf(s1.out_reordered.query, field)

(***************************************************************************)
(* Claims about the AnalyticsDAL (checked under SpecDal)                   *)
(***************************************************************************)
\* C26: get_query_builder raises RuntimeError whenever the DAL is not
\* connected (before connect(), after a failed connect(), after
\* disconnect()) and returns a builder only while a connection is live.
C26_FailsFastWhenNotConnected ==
    (dal.pc = "dal" /\ dal.last.fn = "get_query_builder") =>
        (dal.last.outcome = "RuntimeError" <=> dal.phase # "connected")

(***************************************************************************)
(* Claims about the filter operators of analytics-engine_2 (checked under  *)
(* SpecE2)                                                                 *)
(***************************************************************************)
\* C27: once analyze_data has built the query of a request, every
\* FilterCondition the request model accepted has a clause in the filter
\* handed to the store: the filter constrains the condition's field.
C27_EveryAcceptedFilterInQuery ==
    (e2.pc # "none" /\ e2.query_builder # None) =>
        \A i \in DOMAIN e2.request.criteria.filters :
            LET f == e2.request.criteria.filters[i]
            IN  f.kind = "FilterCondition" =>
                    f.field \in DOMAIN e2.query_builder[1].query

(***************************************************************************)
(* Claims about sal_1's search_items (checked under SpecSearch)            *)
(***************************************************************************)
\* C29: in the response of search_items, has_next is true exactly when
\* page * limit is less than the number of matching documents, has_prev is
\* true exactly when page is greater than 1, and data holds at most limit
\* documents, the ones that start at offset (page - 1) * limit.
C29_PageFlagsAndWindow ==
    s1.pc = "returned" =>
        LET q    == s1.search_query[1]
            r    == s1.response[1]
            n    == Len(s1.matching)
            skip == (q.page - 1) * q.limit
        IN  /\ r.has_next <=> (q.page * q.limit < n)
            /\ r.has_prev <=> (q.page > 1)
            /\ Len(r.data) <= q.limit
            /\ \A i \in DOMAIN r.data :
                  /\ skip + i <= n
                  /\ SameDocument(r.data[i], s1.matching[skip + i])

(***************************************************************************)
(* Claims about sal_1's bulk_create (checked under SpecBulk)               *)
(***************************************************************************)
\* C30: in the BulkResult bulk_create returns, inserted_ids has one
\* identifier per inserted item (its length is success_count) and
\* success_count + error_count is the number of items submitted, whatever
\* the split into batches and whether or not a batch hit write errors.
C30_BulkResultAddsUp ==
    s1.pc = "bulk_returned" =>
        LET r == s1.out[1]
        IN  /\ Len(r.inserted_ids) = r.success_count
            /\ r.success_count + r.error_count = Len(s1.items)

====
